---- MODULE Spec2Model ----
(***************************************************************************)
(* A model of tor-fw-helper's protocol client library: the backend         *)
(* selector (package natclient), the NAT-PMP client (package natpmp) and   *)
(* its packet codec and request driver.                                    *)
(*                                                                         *)
(* The program is single threaded.  One program counter, pc, follows the   *)
(* caller through natclient.New, the factories' probes, the request driver *)
(* and the Client operations.  Network and operating-system outcomes (the  *)
(* routing table, DialUDP, Write, Read) are chosen by the environment.     *)
(***************************************************************************)
EXTENDS Integers, Sequences, FiniteSets, TLC

(***************************************************************************)
(* Bounds of the model.                                                    *)
(***************************************************************************)
\* The number of datagrams the environment delivers to one issueRequest call.
MaxDatagrams == 2

(***************************************************************************)
(* Values.                                                                 *)
(***************************************************************************)
\* Go's nil for an error or an interface value.
Nil == "nil"
\* Go's nil net.IP (a nil byte slice).
NoAddr == <<>>
\* No request / response / datagram.
NoReq == [kind |-> "none"]
NoResp == [kind |-> "none"]
NoDatagram == <<>>

(***************************************************************************)
(* Go's int is 64 bits wide on the platforms the program builds for.  A    *)
(* value that may not fit 31 bits (a duration, a uint32 field) is a pair   *)
(* << hi, lo >> standing for hi * 65536 + lo, with lo in 0..65535.         *)
(***************************************************************************)
Wide(x) == << x \div 65536, x % 65536 >>
WideLess(a, b) == a[1] < b[1] \/ (a[1] = b[1] /\ a[2] < b[2])

\* math.MaxUint16 and math.MaxUint32.
MaxUint16 == 65535
MaxUint32 == << 65535, 65535 >>

(***************************************************************************)
(* natpmp/packet.go: constants.                                            *)
(***************************************************************************)
version == 0
opExternalAddress == 0
opRequestMappingTCP == 2
opRespOffset == 128
resSuccess == 0
resUnsupportedVersion == 1
resNotAuthorized == 2
resNetworkFailure == 3
resOutOfResources == 4
resUnsupportedOpcode == 5
hdrLength == 4
externalAddressRespLength == hdrLength + 8
requestMappingReqLength == hdrLength + 8
requestMappingRespLength == hdrLength + 12
defaultMappingDuration == 7200
\* 250 * time.Millisecond, in milliseconds.
initialTimeoutDuration == 250
maxRetriesOneMore == 3 + 1
maxRetries == 3

(***************************************************************************)
(* Byte-level helpers (encoding/binary, big endian) and Go conversions.    *)
(***************************************************************************)
RECURSIVE Pow2(_)
Pow2(n) == IF n = 0 THEN 1 ELSE 2 * Pow2(n - 1)

\* uint8(x), uint16(x), uint32(x) of a non-negative int.
ToUint8(x) == x % 256
ToUint16(x) == x % 65536
ToUint32(w) == << w[1] % 65536, w[2] >>

\* binary.BigEndian.PutUint16 / PutUint32: the bytes written.
PutUint16LittleEndian(x) == << x % 256, (x \div 256) % 256 >>
PutUint16(x) == << (x \div 256) % 256, x % 256 >>
PutUint32(w) == PutUint16(w[1]) \o PutUint16(w[2])

\* binary.BigEndian.Uint16(raw[off:off+2]) / Uint32(raw[off:off+4]); off is Go's
\* 0-based offset.
Uint16At(raw, off) == raw[off + 1] * 256 + raw[off + 2]
Uint32At(raw, off) == << Uint16At(raw, off), Uint16At(raw, off + 2) >>

(***************************************************************************)
(* natpmp/packet.go: requests.                                             *)
(***************************************************************************)
newExternalAddressReq == [kind |-> "externalAddress"]

\* newRequestMappingReq: the range checks, then the conversions to the
\* fields' widths.  The external port is compared with math.MaxUint32.
\* internal and external are plain integers, duration is a wide one.
newRequestMappingReq(internal, external, duration) ==
  IF internal < 0 \/ internal > MaxUint16 THEN [req |-> NoReq, err |-> "ERANGE"]
  ELSE IF external < 0 \/ WideLess(MaxUint32, Wide(external))
    THEN [req |-> NoReq, err |-> "ERANGE"]
  ELSE IF WideLess(duration, Wide(0)) \/ WideLess(MaxUint32, duration)
    THEN [req |-> NoReq, err |-> "ERANGE"]
  ELSE [req |-> [kind |-> "requestMapping",
                 internalPort |-> ToUint16(internal),
                 externalPort |-> ToUint16(external),
                 mappingLifetime |-> ToUint32(duration)],
        err |-> Nil]

\* packetReq.op()
ReqOp(req) == IF req.kind = "externalAddress" THEN opExternalAddress ELSE opRequestMappingTCP

\* packetReq.encode()
Encode(req) ==
  IF req.kind = "externalAddress"
  THEN << version, ReqOp(req) >>
  ELSE << version, ReqOp(req), 0, 0 >> \o PutUint16(req.internalPort)
         \o PutUint16(req.externalPort) \o PutUint32(req.mappingLifetime)

(***************************************************************************)
(* natpmp/packet.go: response decoders.                                    *)
(***************************************************************************)
resultCodeToError(code) ==
  CASE code = resSuccess -> Nil
    [] code = resUnsupportedVersion -> "unsupported NAT-PMP version"
    [] code = resNotAuthorized -> "not authorized/refused"
    [] code = resNetworkFailure -> "network failure"
    [] code = resOutOfResources -> "out of resources"
    [] code = resUnsupportedOpcode -> "unsupported opcode"
    [] OTHER -> "unknown failure"

NoHdr == [version |-> 0, op |-> 0, resultCode |-> 0]

decodePacketHdr(raw) ==
  IF Len(raw) < hdrLength
  THEN [h |-> NoHdr, err |-> "packet too short to contain header"]
  ELSE [h |-> [version |-> raw[1], op |-> raw[2], resultCode |-> Uint16At(raw, 2)],
        err |-> Nil]

decodeExternalAddressRespLengthFirst(raw) ==
  LET d == decodePacketHdr(raw) IN
  IF d.err # Nil THEN [resp |-> NoResp, err |-> d.err]
  ELSE IF d.h.op # opExternalAddress + opRespOffset
    THEN [resp |-> NoResp, err |-> "not a External Address Response"]
  ELSE IF Len(raw) # externalAddressRespLength
    THEN [resp |-> NoResp, err |-> "invalid packet length"]
  ELSE IF d.h.resultCode # resSuccess
    THEN [resp |-> NoResp, err |-> resultCodeToError(d.h.resultCode)]
  ELSE [resp |-> [kind |-> "externalAddressResp", hdr |-> d.h,
                  epochTime |-> Uint32At(raw, 4),
                  extAddr |-> << raw[9], raw[10], raw[11], raw[12] >>],
        err |-> Nil]
decodeExternalAddressResp(raw) ==
  LET d == decodePacketHdr(raw) IN
  IF d.err # Nil THEN [resp |-> NoResp, err |-> d.err]
  ELSE IF d.h.op # opExternalAddress + opRespOffset
    THEN [resp |-> NoResp, err |-> "not a External Address Response"]
  ELSE IF d.h.resultCode # resSuccess
    THEN [resp |-> NoResp, err |-> resultCodeToError(d.h.resultCode)]
  ELSE IF Len(raw) # externalAddressRespLength
    THEN [resp |-> NoResp, err |-> "invalid packet length"]
  ELSE [resp |-> [kind |-> "externalAddressResp", hdr |-> d.h,
                  epochTime |-> Uint32At(raw, 4),
                  extAddr |-> << raw[9], raw[10], raw[11], raw[12] >>],
        err |-> Nil]

decodeRequestMappingResp(req, raw) ==
  LET d == decodePacketHdr(raw) IN
  IF d.err # Nil THEN [resp |-> NoResp, err |-> d.err]
  ELSE IF d.h.op # ToUint8(ReqOp(req) + opRespOffset)
    THEN [resp |-> NoResp, err |-> "not a Request Mapping Response"]
  ELSE IF d.h.resultCode # resSuccess
    THEN [resp |-> NoResp, err |-> resultCodeToError(d.h.resultCode)]
  ELSE IF Len(raw) # requestMappingRespLength
    THEN [resp |-> NoResp, err |-> "invalid packet length"]
  ELSE IF req.internalPort # Uint16At(raw, 8)
    THEN [resp |-> NoResp, err |-> "state Request Mapping Response"]
  ELSE [resp |-> [kind |-> "requestMappingResp", hdr |-> d.h,
                  epochTime |-> Uint32At(raw, 4),
                  internalPort |-> Uint16At(raw, 8),
                  mappedPort |-> Uint16At(raw, 10),
                  mappingLifetime |-> Uint32At(raw, 12)],
        err |-> Nil]

(***************************************************************************)
(* The gateway (environment): the datagrams it may send back, laid out as  *)
(* the decoders' packet diagrams describe them.                            *)
(***************************************************************************)
ExternalAddressResponse(ver, rc, ip) ==
  << ver, opExternalAddress + opRespOffset >> \o PutUint16(rc) \o PutUint32(Wide(7)) \o ip

MappingResponse(ver, opc, rc, internal, mapped, lifetime) ==
  << ver, opc + opRespOffset >> \o PutUint16(rc) \o PutUint32(Wide(7))
    \o PutUint16(internal) \o PutUint16(mapped) \o PutUint32(Wide(lifetime))

Truncate(raw, n) == SubSeq(raw, 1, n)

ExternalAddrs == { << 203, 0, 113, 5 >>, << 0, 0, 0, 0 >> }

\* External-address responses: success with each address, and a refusal.
\* Mapping responses to a request for internal port 9001: the port asked
\* for, another port, a stale reply for another internal port, and each
\* result code 1..5.  Last, a datagram too short for a header.
Datagrams ==
  { ExternalAddressResponse(0, 0, ip) : ip \in ExternalAddrs }
    \cup { ExternalAddressResponse(0, 3, << 0, 0, 0, 0 >>) }
    \cup { MappingResponse(0, 2, 0, 9001, m, 7200) : m \in { 9001, 9002 } }
    \cup { MappingResponse(0, 2, 0, 9002, 9001, 7200) }
    \cup { MappingResponse(0, 2, rc, 9001, 9001, 0) : rc \in 1..5 }
    \cup { Truncate(MappingResponse(0, 2, 0, 9001, 9001, 7200), 2) }

\* The outcomes of conn.Write: success, a net.Error that is Temporary() or
\* Timeout(), and any other error.
WriteOutcomes == { "ok", "temporary", "fatal" }
\* The errors conn.Read returns: the read deadline, or another error.
ReadErrors == { "deadline", "other" }
\* getGateway(): the default gateway, or an error (NoAddr).
GatewayOutcomes == { << 192, 168, 1, 1 >>, NoAddr }
\* The local address of the connected UDP socket.
LocalAddr == << 192, 168, 1, 2 >>

\* The arguments the caller of the Client passes.
\* << internalPort, externalPort, duration >>, the duration a wide integer
\* (<< 65535, 65535 >> is 2^32-1, << 65536, 0 >> is 2^32, << -1, 65535 >> is -1).
AddPortMappingArgs ==
  { << 9001, 9001, Wide(0) >>, << 9001, 9001, Wide(480) >>,
    << 9001, 9002, Wide(0) >>, << 9001, 9001, << 65535, 65535 >> >>,
    << 9001, 65536, Wide(0) >>, << 0, 0, Wide(0) >>,
    << -1, 9001, Wide(0) >>, << 65536, 9001, Wide(0) >>, << 9001, -1, Wide(0) >>,
    << 9001, 9001, << -1, 65535 >> >>, << 9001, 9001, << 65536, 0 >> >> }
\* << internalPort, externalPort >>
DeletePortMappingArgs == { << 9001, 9001 >>, << 0, 0 >>, << -1, 9001 >>, << 65536, 9001 >> }

\* The command line: --protocol, -v and -natpmp-allow-delete.
Protocols == { "", "UPnP", "NAT-PMP", "bogus" }

(***************************************************************************)
(* State.                                                                  *)
(***************************************************************************)
VARIABLES
  protocol,                \* main: the --protocol flag
  verbose,                 \* main: the -v flag
  allowDeletePortMapping,  \* natpmp: the -natpmp-allow-delete flag
  pc,                      \* where the program is
  idx,                     \* natclient.New: index into factoryNames (0: named lookup)
  probed,                  \* history: the factories invoked, with their results
  stderr,                  \* the lines written to stderr during the current call
  client,                  \* the base.Client natclient.New returned (its backend's name)
  newErr,                  \* the error natclient.New returned
  conn,                    \* natpmp.Client.conn: "none", "open", "closed"
  gwAddr,                  \* natpmp.Client.gwAddr
  internalAddr,            \* natpmp.Client.internalAddr
  extAddr,                 \* natpmp.Client.extAddr
  req,                     \* issueRequest: the request
  rawReq,                  \* issueRequest: req.encode()
  attempt,                 \* issueRequest: the loop counter i
  now,                     \* the clock, in ms since the current issueRequest call began
  timeoutAt,               \* issueRequest: the deadline of the current attempt
  reads,                   \* the datagrams read by the current issueRequest
  lastRead,                \* history: the last datagram conn.Read returned
  skipped,                 \* history: the last datagram skipped for its opcode
  writes,                  \* history: the conn.Write calls of the current issueRequest call
  caller,                  \* who called issueRequest
  ret,                     \* what issueRequest returned
  op,                      \* the Client operation in progress or last completed
  opResult,                \* what it returned
  addResp,                 \* history: the mapping response AddPortMapping accepted
  probeAddr,               \* history: the address bytes of the probe's response datagram
  upc,                     \* upnp: where the UPnP client is
  rootXMLLocs,             \* upnp.discover: the candidates M-SEARCH found
  cand,                    \* upnp.discover: the candidate the loop is at
  ctrl,                    \* upnp.Client.ctrl: the control point discover selected
  selected,                \* history: the description discover selected it from
  uop,                     \* the upnp.Client operation in progress or last completed
  uopResult,               \* what it returned
  soapLog,                 \* history: the SOAP exchanges of the current operation
  resps,                   \* upnp.GetListOfPortMappings: the strings collected
  mainPc,                  \* main: where the command-line tool is
  cmdline,                 \* main: the parsed command line
  backend,                 \* main: the client natclient.New returned (its backend's name)
  loopIdx,                 \* main: the index of the forward/unforward loop
  events,                  \* history: the client calls main made and the lines it wrote
  exitStatus,              \* the status the process exited with (-1: still running)
  ssdpResps,               \* upnp.discover: the responses hc.Do returned to discoverRootDevices
  hpc,                     \* httpu.Client.Do: where the call is
  hRetries,                \* httpu.Client.Do: the retries argument
  hAttempt,                \* httpu.Client.Do: the loop counter i
  hNow,                    \* the clock, in ms since the current Do call began
  hTimeoutAt,              \* httpu.Client.Do: timeoutAt
  respList,                \* httpu.Client.Do: respList
  hSent,                   \* history: the conn.WriteTo calls of the current Do call
  hReadLog,                \* history: the datagrams conn.ReadFrom returned to it
  hRet,                    \* what Do returned
  codecIn,                 \* the arguments of the packet function under study
  codecOut                 \* what it returned

vars == << protocol, verbose, allowDeletePortMapping, pc, idx, probed, stderr, client,
           newErr, conn, gwAddr, internalAddr, extAddr, req, rawReq, attempt, now,
           timeoutAt, reads, lastRead, skipped, writes, caller, ret, op, opResult,
           addResp, probeAddr, upc, rootXMLLocs, cand, ctrl, selected, uop, uopResult, soapLog,
           resps, mainPc, cmdline, backend, loopIdx, events, exitStatus, ssdpResps,
           hpc, hRetries, hAttempt, hNow, hTimeoutAt, respList, hSent, hReadLog, hRet,
           codecIn, codecOut >>

configVars == << protocol, verbose, allowDeletePortMapping >>
selectorVars == << idx, probed, client, newErr >>
clientVars == << conn, gwAddr, internalAddr, extAddr, probeAddr >>
driverVars == << req, rawReq, attempt, now, timeoutAt, reads, lastRead, skipped, writes,
                caller, ret >>
opVars == << op, opResult, addResp >>
upnpVars == << upc, rootXMLLocs, cand, ctrl, selected, uop, uopResult, soapLog, resps,
              ssdpResps >>
httpuVars == << hpc, hRetries, hAttempt, hNow, hTimeoutAt, respList, hSent, hReadLog, hRet >>
codecVars == << codecIn, codecOut >>
cliVars == << mainPc, cmdline, backend, loopIdx, events, exitStatus >>
natpmpVars == << selectorVars, clientVars, driverVars, opVars, pc, stderr >>

NoRet == [resp |-> NoResp, err |-> Nil]
NoSkip == [op |-> -1, attempt |-> -1]
NoOp == [name |-> "none"]
NoResult == [value |-> << >>, err |-> Nil]
NoAddResp == NoResp

NoCtrl == [kind |-> "none"]
NoArgs == [outcome |-> "none"]

\* The UPnP client before upnp.ClientFactory.New is called.
UPnPIdle ==
  /\ upc = "idle"
  /\ rootXMLLocs = << >>
  /\ cand = 0
  /\ ctrl = NoCtrl
  /\ selected = NoArgs
  /\ uop = NoOp
  /\ uopResult = NoResult
  /\ soapLog = << >>
  /\ resps = << >>
  /\ ssdpResps = << >>

\* No httpu.Client.Do call was made yet.
HTTPUIdle ==
  /\ hpc = "idle"
  /\ hRetries = 0
  /\ hAttempt = 0
  /\ hNow = 0
  /\ hTimeoutAt = 0
  /\ respList = << >>
  /\ hSent = << >>
  /\ hReadLog = << >>
  /\ hRet = NoArgs

\* No packet function is under study.
CodecIdle ==
  /\ codecIn = NoArgs
  /\ codecOut = NoArgs

\* main before flag.Parse.
MainIdle ==
  /\ mainPc = "idle"
  /\ cmdline = NoArgs
  /\ backend = Nil
  /\ loopIdx = 0
  /\ events = << >>
  /\ exitStatus = -1

\* The selector and the NAT-PMP client before natclient.New is called.
NATPMPIdle ==
  /\ pc = "main"
  /\ idx = 0
  /\ probed = << >>
  /\ stderr = << >>
  /\ client = Nil
  /\ newErr = Nil
  /\ conn = "none"
  /\ gwAddr = NoAddr
  /\ internalAddr = NoAddr
  /\ extAddr = NoAddr
  /\ req = NoReq
  /\ rawReq = << >>
  /\ attempt = 0
  /\ now = 0
  /\ timeoutAt = 0
  /\ reads = 0
  /\ lastRead = NoDatagram
  /\ skipped = NoSkip
  /\ writes = << >>
  /\ caller = "none"
  /\ ret = NoRet
  /\ op = NoOp
  /\ opResult = NoResult
  /\ addResp = NoAddResp
  /\ probeAddr = NoAddr

Init ==
  /\ protocol \in Protocols
  /\ verbose \in BOOLEAN
  /\ allowDeletePortMapping \in BOOLEAN
  /\ NATPMPIdle
  /\ UPnPIdle
  /\ MainIdle
  /\ HTTPUIdle
  /\ CodecIdle

(***************************************************************************)
(* base.Vlogf and natpmp.Client.Vlogf.  A line is << prefix, format, arg >>.*)
(***************************************************************************)
VlogPrefix == "V: "

\* base.Vlogf: writes to stderr, whatever the verbosity.
Vlogf(log, f, a) == Append(log, << VlogPrefix, f, a >>)

\* natpmp.Client.Vlogf: squelched unless the client is verbose.
ClientVlogf(log, f) == IF verbose THEN Vlogf(log, f, "NAT-PMP") ELSE log

(***************************************************************************)
(* Package natclient: the backend selector.                                *)
(***************************************************************************)
factoryNamesReversed == << "NAT-PMP", "UPnP" >>
\* init(): registerFactory(upnp), then registerFactory(natpmp).
factoryNames == << "UPnP", "NAT-PMP" >>

\* The keys of the factories map.
factories == { factoryNames[k] : k \in 1..Len(factoryNames) }

LookupFactoryOrFirst(name) == IF name \in factories THEN name ELSE factoryNames[1]
\* factories[protocol]: nil for a name that is not registered.
LookupFactory(name) == IF name \in factories THEN name ELSE Nil

HasNextFactorySkipLast(i) == i + 1 < Len(factoryNames)
\* for _, name := range factoryNames: whether an element follows element i.
HasNextFactory(i) == i < Len(factoryNames)

\* New's loop: if c != nil && err == nil { return c, nil }
ReturnsClient(c, err) == c # Nil /\ err = Nil

\* The factory New is invoking.
CurFactory == IF idx = 0 THEN LookupFactory(protocol) ELSE factoryNames[idx]

\* History: invokeFactory has called f.New, which has not returned yet.
ProbedEnter(name) == Append(probed, [name |-> name, err |-> "pending"])

\* invokeFactory's first lines: the "attempting" line, and the call of f.New.
InvokeFactoryEnter(name) ==
  IF verbose THEN Vlogf(stderr, "attempting backend: %s", name) ELSE stderr

\* f.New(verbose) has returned (c, err) with `log` on stderr: the rest of
\* invokeFactory, then New's named return or the next step of its loop.
InvokeFactoryReturn(log, pr, name, c, err) ==
  LET log2 == IF err # Nil THEN Vlogf(log, "failed to initialize: %s - %s", name)
              ELSE IF verbose THEN Vlogf(log, "using backend: %s", name)
              ELSE log
      rc == IF err # Nil THEN Nil ELSE c
  IN
  /\ stderr' = log2
  /\ probed' = [pr EXCEPT ![Len(pr)].err = err]
  /\ IF idx = 0
       THEN /\ client' = rc
            /\ newErr' = err
            /\ idx' = idx
            /\ pc' = IF err = Nil THEN "ready" ELSE "failed"
       ELSE IF ReturnsClient(rc, err)
         THEN /\ client' = rc
              /\ newErr' = Nil
              /\ idx' = idx
              /\ pc' = "ready"
       ELSE IF HasNextFactory(idx)
         THEN /\ idx' = idx + 1
              /\ pc' = "invoke"
              /\ UNCHANGED << client, newErr >>
       ELSE /\ client' = Nil
            /\ newErr' = "failed to initialize/discover a port forwarding mechanism"
            /\ idx' = idx
            /\ pc' = "failed"

\* natclient.New(protocol, verbose), up to the first invokeFactory call.
New ==
  /\ pc = "main"
  /\ IF protocol # ""
       THEN IF LookupFactory(protocol) = Nil
              THEN /\ newErr' = "unknown protocol"
                   /\ pc' = "failed"
                   /\ idx' = 0
              ELSE /\ pc' = "invoke"
                   /\ idx' = 0
                   /\ UNCHANGED newErr
       ELSE IF Len(factoryNames) = 0
              THEN /\ newErr' = "failed to initialize/discover a port forwarding mechanism"
                   /\ pc' = "failed"
                   /\ idx' = 0
              ELSE /\ pc' = "invoke"
                   /\ idx' = 1
                   /\ UNCHANGED newErr
  /\ UNCHANGED << configVars, upnpVars, cliVars, httpuVars, codecVars, probed, stderr, client, clientVars, driverVars, opVars >>

\* invokeFactory on the UPnP factory.  upnp.ClientFactory.New runs discovery
\* and returns a client or the error of the step that failed.
UPnPProbeErrors == { Nil, "upnp: discovery failed" }

InvokeFactoryUPnP ==
  /\ pc = "invoke"
  /\ CurFactory = "UPnP"
  /\ \E err \in UPnPProbeErrors :
       InvokeFactoryReturn(InvokeFactoryEnter("UPnP"), ProbedEnter("UPnP"), "UPnP",
                           IF err = Nil THEN "UPnP" ELSE Nil, err)
  /\ UNCHANGED << configVars, upnpVars, cliVars, httpuVars, codecVars, clientVars, driverVars, opVars >>

(***************************************************************************)
(* natpmp/packet.go: Client.issueRequest, the request driver.              *)
(***************************************************************************)
AttemptTimeoutFlat(i) == initialTimeoutDuration
\* initialTimeoutDuration << uint(i)
AttemptTimeout(i) == initialTimeoutDuration * Pow2(i)

\* The call c.issueRequest(r): req.encode(), timeoutAt := time.Now(), i := 0.
StartIssue(r, who) ==
  /\ req' = r
  /\ rawReq' = Encode(r)
  /\ attempt' = 0
  /\ now' = 0
  /\ timeoutAt' = 0
  /\ reads' = 0
  /\ lastRead' = NoDatagram
  /\ skipped' = NoSkip
  /\ writes' = << >>
  /\ caller' = who
  /\ ret' = NoRet
  /\ pc' = "send"

\* No issueRequest call is in progress: its locals do not exist.
ClearDriver ==
  /\ req' = NoReq
  /\ rawReq' = << >>
  /\ attempt' = 0
  /\ now' = 0
  /\ timeoutAt' = 0
  /\ reads' = 0
  /\ lastRead' = NoDatagram
  /\ skipped' = NoSkip
  /\ writes' = << >>
  /\ caller' = "none"
  /\ ret' = NoRet

\* The end of one iteration of the retry loop (continue, or break out of the
\* read loop): i++, then the loop test; after the loop, ETIMEDOUT.
EndAttempt ==
  /\ attempt' = attempt + 1
  /\ IF attempt + 1 < maxRetries
       THEN /\ pc' = "send"
            /\ UNCHANGED ret
       ELSE /\ pc' = "ret"
            /\ ret' = [resp |-> NoResp, err |-> "ETIMEDOUT"]

\* The read loop's peek at the opcode: the datagram has a header and its
\* opcode is not that of the response to r.
OpcodeMismatchIgnored(r, raw) ==
  FALSE
OpcodeMismatch(r, raw) ==
  Len(raw) >= hdrLength /\ raw[2] # ToUint8(ReqOp(r) + opRespOffset)

\* The read loop's tolerance of a mapping response that does not decode:
\* "if err == nil { return resp, nil }", otherwise read on.
StaleReturned(d) ==
  FALSE
StaleSkipped(d) ==
  d.err # Nil

\* What the read loop does with one datagram: skip it and read on, or return.
HandleDatagram(r, raw) ==
  IF Len(raw) < hdrLength THEN [skip |-> TRUE, ret |-> NoRet]
  ELSE IF OpcodeMismatch(r, raw) THEN [skip |-> TRUE, ret |-> NoRet]
  ELSE IF raw[2] = opExternalAddress + opRespOffset
    THEN [skip |-> FALSE, ret |-> decodeExternalAddressResp(raw)]
  ELSE IF raw[2] = opRequestMappingTCP + opRespOffset
    THEN LET d == decodeRequestMappingResp(r, raw) IN
         IF StaleSkipped(d) THEN [skip |-> TRUE, ret |-> NoRet] ELSE [skip |-> FALSE, ret |-> d]
  ELSE [skip |-> FALSE, ret |-> [resp |-> [kind |-> "raw", raw |-> raw], err |-> Nil]]

\* "if timeoutAt.After(now) { time.Sleep(timeoutAt.Sub(now)) }": the time at
\* which the loop goes on.
NoSleep(deadline, t) ==
  t
SleepUntil(deadline, t) ==
  IF deadline > t THEN deadline ELSE t

\* The top of the retry loop: sleep until the previous deadline, set the new
\* deadline, write the request.
issueRequestWrite ==
  /\ pc = "send"
  /\ LET start == SleepUntil(timeoutAt, now)
         deadline == start + AttemptTimeout(attempt)
     IN
     \E w \in WriteOutcomes :
       /\ now' = start
       /\ timeoutAt' = deadline
       /\ writes' = Append(writes, [raw |-> rawReq, attempt |-> attempt, at |-> start,
                                    timeout |-> deadline - start, result |-> w])
       /\ CASE w = "ok" -> /\ pc' = "read"
                           /\ UNCHANGED << attempt, ret >>
            [] w = "temporary" -> EndAttempt
            [] w = "fatal" -> /\ pc' = "ret"
                              /\ ret' = [resp |-> NoResp, err |-> "write error"]
                              /\ UNCHANGED attempt
  /\ UNCHANGED << configVars, upnpVars, cliVars, httpuVars, codecVars, selectorVars, clientVars, opVars, stderr, req, rawReq,
                  reads, lastRead, skipped, caller >>

\* conn.Read returns a datagram.
issueRequestRead ==
  /\ pc = "read"
  /\ reads < MaxDatagrams
  /\ \E raw \in Datagrams :
       LET h == HandleDatagram(req, raw) IN
       /\ reads' = reads + 1
       /\ lastRead' = raw
       /\ skipped' = IF OpcodeMismatch(req, raw)
                       THEN [op |-> raw[2], attempt |-> attempt] ELSE skipped
       /\ IF h.skip
            THEN UNCHANGED << pc, ret >>
            ELSE /\ ret' = h.ret
                 /\ pc' = "ret"
  /\ UNCHANGED << configVars, upnpVars, cliVars, httpuVars, codecVars, selectorVars, clientVars, opVars, stderr, req, rawReq,
                  attempt, now, timeoutAt, writes, caller >>

\* conn.Read returns an error: the deadline has passed, or something else.
issueRequestReadError ==
  /\ pc = "read"
  /\ \E e \in ReadErrors :
       now' = IF e = "deadline" THEN timeoutAt ELSE now
  /\ EndAttempt
  /\ UNCHANGED << configVars, upnpVars, cliVars, httpuVars, codecVars, selectorVars, clientVars, opVars, stderr, req, rawReq,
                  timeoutAt, reads, lastRead, skipped, writes, caller >>

(***************************************************************************)
(* Package natpmp: ClientFactory.New and the Client operations.            *)
(***************************************************************************)
\* invokeFactory on the NAT-PMP factory: ClientFactory.New up to the probe's
\* issueRequest call.
InvokeFactoryNATPMP ==
  /\ pc = "invoke"
  /\ CurFactory = "NAT-PMP"
  /\ \E gw \in GatewayOutcomes, dialOk \in BOOLEAN :
       LET log0 == InvokeFactoryEnter("NAT-PMP")
           log1 == ClientVlogf(log0, "gwAddr is %s")
       IN
       IF gw = NoAddr
         THEN /\ InvokeFactoryReturn(log0, ProbedEnter("NAT-PMP"), "NAT-PMP", Nil,
                                     "getGateway failed")
              /\ UNCHANGED << clientVars, driverVars >>
       ELSE IF ~dialOk
         THEN /\ InvokeFactoryReturn(ClientVlogf(log1, "failed to connect to router: %s"),
                                     ProbedEnter("NAT-PMP"), "NAT-PMP", Nil, "DialUDP failed")
              /\ gwAddr' = gw
              /\ UNCHANGED << conn, internalAddr, extAddr, probeAddr, driverVars >>
       ELSE /\ gwAddr' = gw
            /\ conn' = "open"
            /\ internalAddr' = LocalAddr
            /\ extAddr' = NoAddr
            /\ stderr' = ClientVlogf(ClientVlogf(log1, "local IP is %s"),
                                     "querying external address")
            /\ probed' = ProbedEnter("NAT-PMP")
            /\ StartIssue(newExternalAddressReq, "probe")
            /\ UNCHANGED << idx, client, newErr, probeAddr >>
  /\ UNCHANGED << configVars, upnpVars, cliVars, httpuVars, codecVars, opVars >>

UseCachedNever(addr) == FALSE
\* GetExternalIPAddress: if c.extAddr != nil
UseCached(addr) == addr # NoAddr

\* GetExternalIPAddress after issueRequest has returned r.
GetExternalIPAddressTail(log, r) ==
  IF r.err # Nil
    THEN [log |-> ClientVlogf(log, "failed to query external address: %s"),
          value |-> NoAddr, err |-> r.err, cache |-> extAddr]
  ELSE IF r.resp.kind = "externalAddressResp"
    THEN [log |-> log, value |-> r.resp.extAddr, err |-> Nil, cache |-> r.resp.extAddr]
  ELSE [log |-> log, value |-> NoAddr,
        err |-> "invalid response received to GetExternalIPAddress", cache |-> extAddr]

\* ClientFactory.New after the probe: if err != nil { c.conn.Close() }
ConnAfterProbeLeftOpen(err, c) ==
  c
ConnAfterProbe(err, c) ==
  IF err # Nil THEN "closed" ELSE c

\* issueRequest returns to GetExternalIPAddress, which returns to
\* ClientFactory.New (the probe) or to the Client's caller.
GetExternalIPAddressReturn ==
  /\ pc = "ret"
  /\ caller \in { "probe", "getip" }
  /\ LET t == GetExternalIPAddressTail(stderr, ret) IN
     IF caller = "probe"
       THEN /\ extAddr' = t.value
            /\ probeAddr' = IF t.err = Nil THEN SubSeq(lastRead, 9, 12) ELSE NoAddr
            /\ conn' = ConnAfterProbe(t.err, conn)
            /\ InvokeFactoryReturn(t.log, probed, "NAT-PMP",
                                   IF t.err = Nil THEN "NAT-PMP" ELSE Nil, t.err)
            /\ UNCHANGED << gwAddr, internalAddr, opVars >>
       ELSE /\ extAddr' = t.cache
            /\ opResult' = [value |-> t.value, err |-> t.err]
            /\ stderr' = t.log
            /\ pc' = "ready"
            /\ UNCHANGED << selectorVars, conn, gwAddr, internalAddr, probeAddr, op, addResp >>
  /\ UNCHANGED << configVars, upnpVars, cliVars, httpuVars, codecVars, driverVars >>

\* Client.GetExternalIPAddress, called on the constructed client.
GetExternalIPAddress ==
  /\ pc = "ready"
  /\ client = "NAT-PMP"
  /\ op' = [name |-> "GetExternalIPAddress"]
  /\ addResp' = NoAddResp
  /\ IF UseCached(extAddr)
       THEN /\ stderr' = ClientVlogf(<< >>, "using cached external address: %s")
            /\ opResult' = [value |-> extAddr, err |-> Nil]
            /\ ClearDriver
            /\ UNCHANGED pc
       ELSE /\ stderr' = ClientVlogf(<< >>, "querying external address")
            /\ opResult' = NoResult
            /\ StartIssue(newExternalAddressReq, "getip")
  /\ UNCHANGED << configVars, upnpVars, cliVars, httpuVars, codecVars, selectorVars, clientVars >>

\* Client.GetListOfPortMappings
GetListOfPortMappings ==
  /\ pc = "ready"
  /\ client = "NAT-PMP"
  /\ op' = [name |-> "GetListOfPortMappings"]
  /\ opResult' = [value |-> << >>, err |-> "ENOTSUP"]
  /\ addResp' = NoAddResp
  /\ stderr' = << >>
  /\ ClearDriver
  /\ UNCHANGED << configVars, upnpVars, cliVars, httpuVars, codecVars, selectorVars, clientVars, pc >>

\* Client.Close
Close ==
  /\ pc = "ready"
  /\ client = "NAT-PMP"
  /\ conn' = "closed"
  /\ pc' = "closed"
  /\ op' = [name |-> "Close"]
  /\ opResult' = NoResult
  /\ addResp' = NoAddResp
  /\ stderr' = << >>
  /\ ClearDriver
  /\ UNCHANGED << configVars, upnpVars, cliVars, httpuVars, codecVars, selectorVars, gwAddr, internalAddr, extAddr, probeAddr >>

MappingDurationUnchanged(duration) == duration
\* AddPortMapping: if duration == 0 { duration = defaultMappingDuration }
MappingDuration(duration) ==
  IF duration = Wide(0) THEN Wide(defaultMappingDuration) ELSE duration

DeleteAlwaysAllowed == TRUE
\* DeletePortMapping: if allowDeletePortMapping
DeleteAllowed == allowDeletePortMapping

MappedPortIgnored(resp, externalPort) == TRUE
\* AddPortMapping: if int(resp.mappedPort) == externalPort
MappedAsRequested(resp, externalPort) == resp.mappedPort = externalPort

ErrDifferentPort == "router mapped a different external port than requested"

\* Client.AddPortMapping, up to its issueRequest call.
AddPortMapping ==
  /\ pc = "ready"
  /\ client = "NAT-PMP"
  /\ \E args \in AddPortMappingArgs :
       LET internalPort == args[1]
           externalPort == args[2]
           duration == args[3]
           r == newRequestMappingReq(internalPort, externalPort, MappingDuration(duration)) IN
       /\ op' = [name |-> "AddPortMapping", internalPort |-> internalPort,
                 externalPort |-> externalPort, duration |-> duration]
       /\ stderr' = ClientVlogf(<< >>, "AddPortMapping: %s:%d <-> 0.0.0.0:%d (%d sec)")
       /\ IF r.err # Nil
            THEN /\ opResult' = [value |-> << >>, err |-> r.err]
                 /\ ClearDriver
                 /\ UNCHANGED pc
            ELSE /\ opResult' = NoResult
                 /\ StartIssue(r.req, "add")
  /\ addResp' = NoAddResp
  /\ UNCHANGED << configVars, upnpVars, cliVars, httpuVars, codecVars, selectorVars, clientVars >>

\* issueRequest returns to AddPortMapping.  On a port conflict AddPortMapping
\* calls c.DeletePortMapping(resp.internalPort, resp.mappedPort) and ignores
\* what it returns.
AddPortMappingReturn ==
  /\ pc = "ret"
  /\ caller = "add"
  /\ IF ret.err # Nil
       THEN /\ stderr' = ClientVlogf(stderr, "failed to create Request Mapping request: %s")
            /\ opResult' = [value |-> << >>, err |-> ret.err]
            /\ pc' = "ready"
            /\ UNCHANGED << addResp, driverVars >>
     ELSE IF ret.resp.kind # "requestMappingResp"
       THEN /\ opResult' = [value |-> << >>, err |-> "invalid response received to AddPortMapping"]
            /\ pc' = "ready"
            /\ UNCHANGED << stderr, addResp, driverVars >>
     ELSE /\ addResp' = ret.resp
          /\ IF MappedAsRequested(ret.resp, op.externalPort)
               THEN /\ opResult' = [value |-> << >>, err |-> Nil]
                    /\ pc' = "ready"
                    /\ UNCHANGED << stderr, driverVars >>
             ELSE LET d == newRequestMappingReq(ret.resp.internalPort, 0, Wide(0)) IN
                  IF DeleteAllowed /\ d.err = Nil
                    THEN /\ StartIssue(d.req, "cleanup")
                         /\ UNCHANGED << stderr, opResult >>
                    ELSE /\ stderr' = ClientVlogf(stderr, "router mapped a different external port than requested: %d")
                         /\ opResult' = [value |-> << >>, err |-> ErrDifferentPort]
                         /\ pc' = "ready"
                         /\ UNCHANGED driverVars
  /\ UNCHANGED << configVars, upnpVars, cliVars, httpuVars, codecVars, selectorVars, clientVars, op >>

\* issueRequest returns to the DeletePortMapping that AddPortMapping called;
\* AddPortMapping drops its result and reports the conflict.
AddPortMappingCleanupReturn ==
  /\ pc = "ret"
  /\ caller = "cleanup"
  /\ stderr' = ClientVlogf(stderr, "router mapped a different external port than requested: %d")
  /\ opResult' = [value |-> << >>, err |-> ErrDifferentPort]
  /\ pc' = "ready"
  /\ UNCHANGED << configVars, upnpVars, cliVars, httpuVars, codecVars, selectorVars, clientVars, driverVars, op, addResp >>

\* Client.DeletePortMapping, called on the constructed client.
DeletePortMapping ==
  /\ pc = "ready"
  /\ client = "NAT-PMP"
  /\ \E args \in DeletePortMappingArgs :
       LET internalPort == args[1]
           externalPort == args[2]
           d == newRequestMappingReq(internalPort, 0, Wide(0)) IN
       /\ op' = [name |-> "DeletePortMapping", internalPort |-> internalPort,
                 externalPort |-> externalPort]
       /\ IF ~DeleteAllowed
            THEN /\ opResult' = [value |-> << >>, err |-> "ENOTSUP"]
                 /\ ClearDriver
                 /\ UNCHANGED pc
          ELSE IF d.err # Nil
            THEN /\ opResult' = [value |-> << >>, err |-> d.err]
                 /\ ClearDriver
                 /\ UNCHANGED pc
          ELSE /\ opResult' = NoResult
               /\ StartIssue(d.req, "delete")
  /\ addResp' = NoAddResp
  /\ stderr' = << >>
  /\ UNCHANGED << configVars, upnpVars, cliVars, httpuVars, codecVars, selectorVars, clientVars >>

\* issueRequest returns to DeletePortMapping: return err.
DeletePortMappingReturn ==
  /\ pc = "ret"
  /\ caller = "delete"
  /\ opResult' = [value |-> << >>, err |-> ret.err]
  /\ pc' = "ready"
  /\ UNCHANGED << configVars, upnpVars, cliVars, httpuVars, codecVars, selectorVars, clientVars, driverVars, op, addResp, stderr >>

(***************************************************************************)
(* The specification.                                                      *)
(***************************************************************************)
Next ==
  \/ New
  \/ InvokeFactoryUPnP
  \/ InvokeFactoryNATPMP
  \/ issueRequestWrite
  \/ issueRequestRead
  \/ issueRequestReadError
  \/ GetExternalIPAddressReturn
  \/ GetExternalIPAddress
  \/ GetListOfPortMappings
  \/ AddPortMapping
  \/ AddPortMappingReturn
  \/ AddPortMappingCleanupReturn
  \/ DeletePortMapping
  \/ DeletePortMappingReturn
  \/ Close

Spec == Init /\ [][Next]_vars

(***************************************************************************)
(* Properties of the backend selector.                                     *)
(***************************************************************************)
\* natclient.New has returned.
NewReturned == pc = "failed" \/ client # Nil

\* C1: with an empty protocol, New probes the factories in registration
\* order, UPnP first and NAT-PMP second; every factory probed before the
\* last one has failed (NAT-PMP is probed only after UPnP failed, and nothing
\* is probed after a success); and when New returns a client it is the one
\* of the last factory probed, whose probe succeeded.
C1_ProbeOrder ==
  protocol = "" =>
    /\ Len(probed) <= 2
    /\ \A k \in 1..Len(probed) : probed[k].name = << "UPnP", "NAT-PMP" >>[k]
    /\ \A k \in 1..Len(probed) : k < Len(probed) => probed[k].err \notin { Nil, "pending" }
    /\ client # Nil =>
         /\ probed # << >>
         /\ probed[Len(probed)].err = Nil
         /\ client = probed[Len(probed)].name
         /\ newErr = Nil

\* C1 witness: UPnP failed, NAT-PMP was probed next and became the client.
C1_Witness ==
  /\ protocol = ""
  /\ pc = "ready"
  /\ client = "NAT-PMP"
  /\ Len(probed) = 2
  /\ probed[1].name = "UPnP"
  /\ probed[1].err # Nil

\* C2: New(verbose = false) with every probe failing writes nothing to
\* stderr.
C2_SilentWhenNotVerbose ==
  (protocol = "" /\ ~verbose /\ pc = "failed") => stderr = << >>

\* C3: with a protocol name, no factory but the named one is probed: a name
\* that is not registered fails with "unknown protocol" and probes nothing;
\* a registered name is probed once and New returns what that probe
\* returned, client or error.
C3_NamedProtocolOnly ==
  protocol # "" =>
    /\ Len(probed) <= 1
    /\ \A k \in 1..Len(probed) : probed[k].name = protocol
    /\ protocol \notin { "UPnP", "NAT-PMP" } =>
         /\ probed = << >>
         /\ pc # "main" => (pc = "failed" /\ newErr = "unknown protocol" /\ client = Nil)
    /\ (protocol \in { "UPnP", "NAT-PMP" } /\ NewReturned) =>
         /\ Len(probed) = 1
         /\ newErr = probed[1].err
         /\ client = (IF probed[1].err = Nil THEN protocol ELSE Nil)

\* C3 witness: the named NAT-PMP factory failed and New failed with its
\* error, UPnP never probed.
C3_Witness ==
  /\ protocol = "NAT-PMP"
  /\ pc = "failed"
  /\ Len(probed) = 1
  /\ newErr = "ETIMEDOUT"

\* C4: with an empty protocol and every probe failing, New returns no client
\* and the error "failed to initialize/discover a port forwarding
\* mechanism", each registered factory having been probed exactly once.
C4_AllProbesFail ==
  (protocol = "" /\ pc = "failed") =>
    /\ client = Nil
    /\ newErr = "failed to initialize/discover a port forwarding mechanism"
    /\ Len(probed) = 2
    /\ probed[1].name = "UPnP"
    /\ probed[2].name = "NAT-PMP"
    /\ \A k \in 1..2 : probed[k].err \notin { Nil, "pending" }

\* C4 witness: both probes failed, the NAT-PMP one by a timeout.
C4_Witness ==
  /\ protocol = ""
  /\ pc = "failed"
  /\ Len(probed) = 2
  /\ probed[2].err = "ETIMEDOUT"

(***************************************************************************)
(* Properties of the NAT-PMP client.                                       *)
(***************************************************************************)
\* AddPortMapping has accepted a mapping response whose mapped port is not
\* the external port it asked for.
PortConflict ==
  /\ op.name = "AddPortMapping"
  /\ addResp # NoResp
  /\ addResp.mappedPort # op.externalPort

\* C5 as stated: on a port conflict AddPortMapping fails with "router mapped
\* a different external port than requested" and writes no further datagram
\* to the gateway, whatever the client's configuration.
C5_NoCleanupInAnyConfiguration ==
  PortConflict =>
    /\ ~(caller = "cleanup" /\ writes # << >>)
    /\ pc = "ready" => opResult.err = ErrDifferentPort

\* C5 amended: on a port conflict AddPortMapping fails with "router mapped a
\* different external port than requested"; without -natpmp-allow-delete it
\* issues no further request, and with it the only further request is the
\* deletion request (external port 0, lifetime 0) for the response's
\* internal port.
C5_NoCleanupUnlessAllowed ==
  PortConflict =>
    /\ pc = "ready" => opResult.err = ErrDifferentPort
    /\ ~allowDeletePortMapping => (caller = "add" /\ pc = "ready")
    /\ allowDeletePortMapping =>
         /\ caller = "cleanup"
         /\ rawReq = << 0, 2, 0, 0 >> \o PutUint16(addResp.internalPort) \o << 0, 0, 0, 0, 0, 0 >>

\* C5 witness: a conflict reported with the flag unset.
C5_Witness ==
  /\ PortConflict
  /\ ~allowDeletePortMapping
  /\ pc = "ready"
  /\ opResult.err = ErrDifferentPort
  /\ addResp.mappedPort = 9002

\* C6 as stated: DeletePortMapping returns "operation not supported" and
\* writes no datagram, for every pair of ports.
C6_DeleteNeverSupported ==
  op.name = "DeletePortMapping" =>
    /\ writes = << >>
    /\ pc = "ready"
    /\ opResult.err = "ENOTSUP"

\* C6 amended: without -natpmp-allow-delete (the default), DeletePortMapping
\* returns "operation not supported" and writes no datagram, for every pair
\* of ports.
C6_DeleteUnsupportedByDefault ==
  (op.name = "DeletePortMapping" /\ ~allowDeletePortMapping) =>
    /\ writes = << >>
    /\ caller = "none"
    /\ pc = "ready"
    /\ opResult.err = "ENOTSUP"

\* C6 witness: a refused DeletePortMapping of in-range ports.
C6_Witness ==
  /\ op.name = "DeletePortMapping"
  /\ op.internalPort = 9001
  /\ ~allowDeletePortMapping
  /\ pc = "ready"
  /\ opResult.err = "ENOTSUP"

\* The last datagram read is a TCP mapping response with result code 1..5.
ReadResultCodeResponse ==
  /\ Len(lastRead) >= 4
  /\ lastRead[1] = 0
  /\ lastRead[2] = 130
  /\ Uint16At(lastRead, 2) \in 1..5

\* C7: when the gateway answers the mapping request with result code 1..5,
\* AddPortMapping fails with the error of that result code.
C7_ResultCodeError ==
  (op.name = "AddPortMapping" /\ caller = "add" /\ pc = "ready" /\ ReadResultCodeResponse) =>
    opResult.err = CASE Uint16At(lastRead, 2) = 1 -> "unsupported NAT-PMP version"
                     [] Uint16At(lastRead, 2) = 2 -> "not authorized/refused"
                     [] Uint16At(lastRead, 2) = 3 -> "network failure"
                     [] Uint16At(lastRead, 2) = 4 -> "out of resources"
                     [] Uint16At(lastRead, 2) = 5 -> "unsupported opcode"

\* issueRequest has returned.
IssueReturned == caller # "none" /\ pc \notin { "send", "read" }

\* C8: if no datagram is received and every write succeeds, the request is
\* written exactly 3 times, with the same bytes, under deadlines of 250, 500
\* and 1000 ms, and issueRequest then fails with a timeout; there is never a
\* fourth write.
C8_ThreeAttempts ==
  /\ Len(writes) <= 3
  /\ (IssueReturned /\ reads = 0 /\ \A k \in 1..Len(writes) : writes[k].result = "ok") =>
       /\ Len(writes) = 3
       /\ \A k \in 1..3 : writes[k].raw = writes[1].raw /\ writes[k].attempt = k - 1
       /\ writes[1].timeout = 250
       /\ writes[2].timeout = 500
       /\ writes[3].timeout = 1000
       /\ ret.err = "ETIMEDOUT"

\* C8 witness: a mapping request that timed out after three good writes.
C8_Witness ==
  /\ IssueReturned
  /\ reads = 0
  /\ Len(writes) = 3
  /\ \A k \in 1..3 : writes[k].result = "ok"
  /\ req.kind = "requestMapping"
  /\ now = 1750

\* C9: a constructed NAT-PMP client holds the address of the probe's
\* response; GetExternalIPAddress on it returns that address and writes no
\* datagram; an external-address request is in progress only while no
\* address is cached.
C9_CachedExternalAddress ==
  /\ client = "NAT-PMP" => (extAddr # NoAddr /\ extAddr = probeAddr)
  /\ op.name = "GetExternalIPAddress" =>
       /\ pc = "ready"
       /\ caller = "none"
       /\ writes = << >>
       /\ opResult = [value |-> probeAddr, err |-> Nil]
  /\ (pc \in { "send", "read" } /\ req.kind = "externalAddress") => extAddr = NoAddr

\* C9 witness: GetExternalIPAddress answered from the cache.
C9_Witness ==
  /\ op.name = "GetExternalIPAddress"
  /\ pc = "ready"
  /\ opResult.value = << 203, 0, 113, 5 >>

\* C10: AddPortMapping writes a TCP (op 2) mapping request whose lifetime is
\* 7200 for a duration of 0 and the duration itself otherwise, and returns
\* success exactly when the decoded response's mapped port is the external
\* port asked for.
C10_LifetimeAndResult ==
  op.name = "AddPortMapping" =>
    /\ caller = "add" =>
         \A k \in 1..Len(writes) :
           /\ Len(writes[k].raw) = 12
           /\ writes[k].raw[2] = 2
           /\ SubSeq(writes[k].raw, 9, 12) =
                (IF op.duration = << 0, 0 >> THEN << 0, 0, 28, 32 >>
                 ELSE PutUint16(op.duration[1]) \o PutUint16(op.duration[2]))
    /\ pc = "ready" =>
         (opResult.err = Nil <=> (addResp # NoResp /\ addResp.mappedPort = op.externalPort))

\* C10 witness: a duration of 0, mapped as requested.
C10_Witness ==
  /\ op.name = "AddPortMapping"
  /\ op.duration = << 0, 0 >>
  /\ pc = "ready"
  /\ opResult.err = Nil
  /\ writes # << >>

\* The arguments of the AddPortMapping call lie outside the ranges of the
\* mapping request's fields.
InternalOutOfRange == op.internalPort < 0 \/ op.internalPort > 65535
ExternalOutOfRange == op.externalPort < 0 \/ op.externalPort > 65535
DurationOutOfRange == op.duration[1] < 0 \/ op.duration[1] > 65535

\* C11: a mapping request is built only from an internal port in
\* [0, 65535], an external port in [0, 65535] and a duration in
\* [0, 2^32-1]; a field that is -1 or above its maximum gives a range error
\* and no request, and internal = external = duration = 0 is accepted.
C11_FieldRanges ==
  op.name = "AddPortMapping" =>
    /\ (InternalOutOfRange \/ ExternalOutOfRange \/ DurationOutOfRange) =>
         /\ pc = "ready"
         /\ opResult.err = "ERANGE"
         /\ writes = << >>
    /\ (op.internalPort = 0 /\ op.externalPort = 0 /\ op.duration = << 0, 0 >>) =>
         opResult.err # "ERANGE"

\* C20: issueRequest never returns a datagram whose opcode is not the
\* request's opcode + 128: such a datagram is skipped, and a good response
\* read later is the one decoded and returned.
C20_OpcodeMatched ==
  /\ (pc = "read" /\ lastRead # NoDatagram /\ OpcodeMismatch(req, lastRead)) =>
       (ret = NoRet /\ skipped.op = lastRead[2])
  /\ (caller # "none" /\ ret.resp # NoResp) =>
       /\ lastRead[2] = ReqOp(req) + 128
       /\ req.kind = "externalAddress" => ret = decodeExternalAddressResp(lastRead)
       /\ req.kind = "requestMapping" => ret = decodeRequestMappingResp(req, lastRead)

\* C20 witness: an external-address response read while a mapping request is
\* outstanding, then, in the same attempt, the mapping response returned.
C20_Witness ==
  /\ caller = "add"
  /\ pc = "ret"
  /\ skipped = [op |-> 128, attempt |-> attempt]
  /\ reads = 2
  /\ Len(writes) = attempt + 1
  /\ ret.err = Nil
  /\ ret.resp.kind = "requestMappingResp"
  /\ ret.resp.mappedPort = Uint16At(lastRead, 10)

(***************************************************************************)
(* natclient/upnp/ssdp.go: device descriptions and Client.discover.        *)
(* A URN is the sequence strings.Split(s, ":") gives; a device description *)
(* is the tree xml.Unmarshal builds.                                       *)
(***************************************************************************)
MaxCandidates == 2

internetGatewayDevice == "InternetGatewayDevice"
wanDevice == "WANDevice"
wanConnectionDevice == "WANConnectionDevice"
wanIPConnection == "WANIPConnection"
wanPPPConnection == "WANPPPConnection"

NoURN == [kind |-> "none"]
NoDevice == [DeviceType |-> << >>]
NoService == [ServiceType |-> << >>]
NoURL == "nil"

\* The texts of a version, character by character.
VersionTexts ==
  { << "1" >>, << "2" >>, << "0" >>, << "2", "0", "0" >>, << "0", "1" >>, << "+", "1" >>,
    << "-", "1" >>, << "-", "0" >>, << "1", "2", "7" >>, << "1", "2", "8" >>,
    << "-", "1", "2", "8" >>, << "-", "1", "2", "9" >>, << "x" >>, << "1", "x" >>,
    << "-" >>, << >> }

RECURSIVE Text(_)
Text(cs) == IF cs = << >> THEN "" ELSE cs[1] \o Text(Tail(cs))

DigitValue(ch) ==
  CASE ch = "0" -> 0 [] ch = "1" -> 1 [] ch = "2" -> 2 [] ch = "3" -> 3 [] ch = "4" -> 4
    [] ch = "5" -> 5 [] ch = "6" -> 6 [] ch = "7" -> 7 [] ch = "8" -> 8 [] ch = "9" -> 9
    [] OTHER -> -1

\* The value of a sequence of decimal digits after acc; -1 when a character
\* is not a digit.
RECURSIVE ParseDigits(_, _)
ParseDigits(cs, acc) ==
  IF cs = << >> THEN acc
  ELSE IF DigitValue(cs[1]) < 0 THEN -1
  ELSE ParseDigits(Tail(cs), acc * 10 + DigitValue(cs[1]))

\* strconv.ParseInt(s, 10, 8) on the characters of s: an optional sign, then
\* at least one digit, and a value in -128..127.
ParseInt8Chars(cs) ==
  IF cs = << >> THEN [v |-> 0, ok |-> FALSE]
  ELSE LET neg == cs[1] = "-"
           digits == IF cs[1] \in { "+", "-" } THEN Tail(cs) ELSE cs
           un == IF digits = << >> THEN -1 ELSE ParseDigits(digits, 0)
       IN IF un < 0 THEN [v |-> 0, ok |-> FALSE]
          ELSE IF ~neg /\ un > 127 THEN [v |-> 0, ok |-> FALSE]
          ELSE IF neg /\ un > 128 THEN [v |-> 0, ok |-> FALSE]
          ELSE [v |-> IF neg THEN 0 - un ELSE un, ok |-> TRUE]

\* strconv.ParseInt(s, 10, 8) on the version strings of the descriptions.
ParseInt8(str) ==
  ParseInt8Chars(CHOOSE cs \in VersionTexts : Text(cs) = str)

parseURN(split) ==
  IF Len(split) # 5 THEN NoURN
  ELSE IF split[1] # "urn" THEN NoURN
  ELSE IF ~ParseInt8(split[5]).ok THEN NoURN
  ELSE [kind |-> split[3], domainName |-> split[2], kindType |-> split[4],
        version |-> ParseInt8(split[5]).v]

\* upnpDevice.is and upnpService.is
DeviceIs(d, k) ==
  LET urn == parseURN(d.DeviceType) IN
  urn # NoURN /\ urn.kind = "device" /\ urn.kindType = k
ServiceIs(sv, k) ==
  LET urn == parseURN(sv.ServiceType) IN
  urn # NoURN /\ urn.kind = "service" /\ urn.kindType = k

Min(S) == CHOOSE m \in S : \A n \in S : m <= n

\* upnpDevice.findChild and upnpDevice.findService: the first match.
findChild(d, k) ==
  LET I == { i \in 1..Len(d.DeviceList) : DeviceIs(d.DeviceList[i], k) } IN
  IF I = {} THEN NoDevice ELSE d.DeviceList[Min(I)]
findService(d, k) ==
  LET I == { i \in 1..Len(d.ServiceList) : ServiceIs(d.ServiceList[i], k) } IN
  IF I = {} THEN NoService ELSE d.ServiceList[Min(I)]

\* url.Parse on the URLs of the descriptions: "%zz" is an invalid escape.
URLParses(u) == u # "%zz"

rootLocBase == "http://192.168.1.1:5000"

\* discover: the base of relative URLs; nil unless the description is UPnP 1.0.
\* bad: a URLBase that does not parse.
urlBaseOf(root) ==
  IF root.Major = 1 /\ root.Minor = 0
  THEN IF root.URLBase # ""
         THEN IF URLParses(root.URLBase) THEN [bad |-> FALSE, url |-> root.URLBase]
              ELSE [bad |-> TRUE, url |-> NoURL]
         ELSE [bad |-> FALSE, url |-> rootLocBase]
  ELSE [bad |-> FALSE, url |-> NoURL]

okServicesPPPFirst == << wanPPPConnection, wanIPConnection >>
okServices == << wanIPConnection, wanPPPConnection >>

Miss(why) == [found |-> FALSE, cp |-> NoCtrl, why |-> why]

\* The address retrieveDeviceDescription takes from the connection it
\* downloaded a description over.
localAddr == "192.168.1.2"

\* What discover returns for the service sv: cp.url (a base, "" when the
\* ControlURL is absolute, and a path), cp.urn, and the local address.
ControlPointURNOfControlURL(base, sv) ==
  [kind |-> "controlPoint", base |-> base, path |-> sv.ControlURL,
   urn |-> parseURN(<< sv.ControlURL >>), localAddr |-> localAddr]
ControlPoint(base, sv) ==
  [kind |-> "controlPoint", base |-> base, path |-> sv.ControlURL,
   urn |-> parseURN(sv.ServiceType), localAddr |-> localAddr]

\* discover's loop over okServices, from element i on.
RECURSIVE TryServices(_, _, _)
TryServices(urlBase, wanConnD, i) ==
  IF i > Len(okServices) THEN Miss("device has no compatible upstream services")
  ELSE LET sv == findService(wanConnD, okServices[i]) IN
       IF sv = NoService THEN TryServices(urlBase, wanConnD, i + 1)
       ELSE IF urlBase # NoURL
         THEN [found |-> TRUE, why |-> "", cp |-> ControlPoint(urlBase, sv)]
       ELSE IF ~URLParses(sv.ControlURL) THEN TryServices(urlBase, wanConnD, i + 1)
       ELSE [found |-> TRUE, why |-> "", cp |-> ControlPoint("", sv)]

\* discover's test of the root device: rootD.is(internetGatewayDevice).
IsGatewayRootUnchecked(c) ==
  TRUE
IsGatewayRoot(c) ==
  DeviceIs(c.Device, internetGatewayDevice)

\* The body of discover's loop over rootXMLLocs, for one candidate.
SelectService(c) ==
  IF c.kind = "error" THEN Miss("download failed")
  ELSE IF urlBaseOf(c).bad THEN Miss("malformed URLBase")
  ELSE IF ~IsGatewayRoot(c)
    THEN Miss("root device is not a InternetGatewayDevice")
  ELSE LET wanD == findChild(c.Device, wanDevice) IN
       IF wanD = NoDevice THEN Miss("device does not have a WANDevice")
       ELSE LET wanConnD == findChild(wanD, wanConnectionDevice) IN
            IF wanConnD = NoDevice THEN Miss("device does not have a WANConnectionDevice")
            ELSE TryServices(urlBaseOf(c).url, wanConnD, 1)

(***************************************************************************)
(* The device descriptions the candidates serve.                           *)
(***************************************************************************)
DevURN(t) == << "urn", "schemas-upnp-org", "device", t, "1" >>
SvcURN(t, v) == << "urn", "schemas-upnp-org", "service", t, v >>
Svc(t, url) == [ServiceType |-> SvcURN(t, "1"), ControlURL |-> url]
Dev(t, children, services) ==
  [DeviceType |-> DevURN(t), DeviceList |-> children, ServiceList |-> services]
Root(major, minor, base, device) ==
  [kind |-> "root", Major |-> major, Minor |-> minor, URLBase |-> base, Device |-> device]
\* An InternetGatewayDevice with the full path down to `services`.
Gateway(services) ==
  Dev(internetGatewayDevice,
      << Dev("LANDevice", << >>, << >>),
         Dev(wanDevice, << Dev(wanConnectionDevice, << >>, services) >>, << >>) >>,
      << >>)

IPSvc == Svc(wanIPConnection, "http://192.168.1.1:5000/ctl/IPConn")
PPPSvc == Svc(wanPPPConnection, "http://192.168.1.1:5000/ctl/PPPConn")
OtherSvc == Svc("Layer3Forwarding", "http://192.168.1.1:5000/ctl/L3F")
DownloadFailed == [kind |-> "error"]

\* A root device of another type above a complete WANDevice subtree.
NonGatewayRoot ==
  Root(1, 1, "", Dev("MediaServer",
                     << Dev(wanDevice, << Dev(wanConnectionDevice, << >>, << IPSvc >>) >>,
                            << >>) >>,
                     << IPSvc >>))

Descriptions ==
  { DownloadFailed,
    Root(1, 1, "", Gateway(<< OtherSvc, IPSvc, PPPSvc >>)),
    Root(1, 1, "", Gateway(<< PPPSvc, IPSvc >>)),
    Root(1, 1, "", Gateway(<< PPPSvc >>)),
    Root(1, 1, "", Gateway(<< OtherSvc >>)),
    Root(1, 1, "", Gateway(<< Svc(wanIPConnection, "%zz"), PPPSvc >>)),
    Root(1, 1, "", Gateway(<< [ServiceType |-> SvcURN(wanIPConnection, "200"),
                               ControlURL |-> "http://192.168.1.1:5000/ctl/IPConn"] >>)),
    Root(1, 0, "", Gateway(<< Svc(wanPPPConnection, "/ctl/PPPConn"),
                              Svc(wanIPConnection, "/ctl/IPConn") >>)),
    Root(1, 0, "%zz", Gateway(<< IPSvc >>)),
    Root(1, 1, "", Dev("MediaServer", << >>, << IPSvc >>)),
    NonGatewayRoot,
    Root(1, 1, "", Dev(internetGatewayDevice, << >>, << IPSvc >>)),
    Root(1, 1, "", Dev(internetGatewayDevice,
                       << Dev(wanDevice, << >>, << IPSvc >>) >>, << >>)),
    Root(1, 1, "", Dev(internetGatewayDevice,
                       << Dev(wanConnectionDevice, << >>, << IPSvc >>) >>, << >>)) }

RECURSIVE SeqsUpTo(_, _)
SeqsUpTo(S, n) ==
  IF n = 0 THEN { << >> }
  ELSE LET shorter == SeqsUpTo(S, n - 1) IN
       shorter \cup { Append(q, x) : q \in shorter, x \in S }

\* What discoverRootDevices returns: at least one location, or an error.  A
\* location stands in the model for the description retrieveDeviceDescription
\* gets from it.
RootDeviceLists == SeqsUpTo(Descriptions, MaxCandidates) \ { << >> }

ErrNoRootDevices == "ssdp: failed to discover any root devices"
ErrNoCompatibleService == "failed to find a compatible service"

mSearchStRoot == "upnp:rootdevice"
\* http.StatusOK
StatusOK == 200

\* One parsed response to the M-SEARCH: its status code, its ST header, its
\* Location header and the description served at that location.
SsdpResponse(code, st, loc, d) ==
  [StatusCode |-> code, ST |-> st, Location |-> loc, serves |-> d]

\* The responses hc.Do may return: for every description a well-formed
\* answer; answers with another status, with another ST, with both, and with
\* a Location that url.Parse rejects.
SsdpResponses ==
  { SsdpResponse(StatusOK, mSearchStRoot, "http://192.168.1.1:5000/rootDesc.xml", d) :
      d \in Descriptions }
    \cup { SsdpResponse(404, mSearchStRoot, "http://192.168.1.1:5000/rootDesc.xml",
                        Root(1, 1, "", Gateway(<< IPSvc >>))),
           SsdpResponse(StatusOK, "ssdp:all", "http://192.168.1.1:5000/rootDesc.xml",
                        Root(1, 1, "", Gateway(<< IPSvc >>))),
           SsdpResponse(500, "ssdp:all", "http://192.168.1.1:5000/rootDesc.xml",
                        Root(1, 1, "", Gateway(<< PPPSvc >>))),
           SsdpResponse(StatusOK, mSearchStRoot, "%zz", Root(1, 1, "", Gateway(<< IPSvc >>))) }

\* hc.Do returns at least one response, or an error.
SsdpResponseLists == SeqsUpTo(SsdpResponses, MaxCandidates) \ { << >> }

\* The tests of discoverRootDevices on one response: status 200, the ST of
\* the request, a Location url.Parse accepts.
IsCandidateAnyStatus(resp) ==
  resp.ST = mSearchStRoot /\ URLParses(resp.Location)
IsCandidate(resp) ==
  /\ resp.StatusCode = StatusOK
  /\ resp.ST = mSearchStRoot
  /\ URLParses(resp.Location)

\* locs, as the loop over resps builds it.
RootLocations(rs) ==
  LET kept == SelectSeq(rs, IsCandidate) IN
  [ k \in 1..Len(kept) |-> kept[k].serves ]

\* upnp.ClientFactory.New: c.discover(), discoverRootDevices up to the
\* return of hc.Do.
upnpNew ==
  /\ upc = "idle"
  /\ \/ /\ upc' = "failed"
        /\ uopResult' = [value |-> << >>, err |-> "ETIMEDOUT"]
        /\ UNCHANGED ssdpResps
     \/ /\ \E rs \in SsdpResponseLists : ssdpResps' = rs
        /\ upc' = "msearch"
        /\ UNCHANGED uopResult
  /\ UNCHANGED << configVars, natpmpVars, cliVars, httpuVars, codecVars, rootXMLLocs, cand,
                  ctrl, selected, uop, soapLog, resps >>

\* discoverRootDevices, from the loop over resps to its return, and discover
\* up to its loop over rootXMLLocs.
discoverRootDevices ==
  /\ upc = "msearch"
  /\ LET locs == RootLocations(ssdpResps) IN
     IF Len(locs) > 0
       THEN /\ rootXMLLocs' = locs
            /\ cand' = 1
            /\ upc' = "discover"
            /\ UNCHANGED uopResult
       ELSE /\ upc' = "failed"
            /\ uopResult' = [value |-> << >>, err |-> ErrNoRootDevices]
            /\ UNCHANGED << rootXMLLocs, cand >>
  /\ UNCHANGED << configVars, natpmpVars, cliVars, httpuVars, codecVars, ssdpResps, ctrl,
                  selected, uop, soapLog, resps >>

\* The next element of "for _, rootLoc := range rootXMLLocs".
NextCandidateSkipping(c) ==
  c + 2
NextCandidate(c) ==
  c + 1

\* One iteration of discover's loop over rootXMLLocs, or its end.  When
\* discover returns a control point its locals are gone; `selected` and `cand`
\* keep which description it came from.
discover ==
  /\ upc = "discover"
  /\ IF cand > Len(rootXMLLocs)
       THEN /\ upc' = "failed"
            /\ uopResult' = [value |-> << >>, err |-> ErrNoCompatibleService]
            /\ UNCHANGED << cand, ctrl, selected, rootXMLLocs, ssdpResps >>
       ELSE LET r == SelectService(rootXMLLocs[cand]) IN
            IF r.found
              THEN /\ ctrl' = r.cp
                   /\ selected' = rootXMLLocs[cand]
                   /\ rootXMLLocs' = << >>
                   /\ ssdpResps' = << >>
                   /\ upc' = "ready"
                   /\ UNCHANGED << cand, uopResult >>
              ELSE /\ cand' = NextCandidate(cand)
                   /\ UNCHANGED << upc, ctrl, selected, uopResult, rootXMLLocs, ssdpResps >>
  /\ UNCHANGED << configVars, natpmpVars, cliVars, httpuVars, codecVars, uop, soapLog, resps >>

(***************************************************************************)
(* natclient/upnp/igd.go: SOAP requests and responses.                     *)
(***************************************************************************)
MaxListed == 2

maxMappingDuration == 604800

Digit(d) ==
  CASE d = 0 -> "0" [] d = 1 -> "1" [] d = 2 -> "2" [] d = 3 -> "3" [] d = 4 -> "4"
    [] d = 5 -> "5" [] d = 6 -> "6" [] d = 7 -> "7" [] d = 8 -> "8" [] d = 9 -> "9"

\* Decimal formatting of a non-negative integer (%d, strconv.FormatUint).
RECURSIVE Itoa(_)
Itoa(n) == IF n < 10 THEN Digit(n) ELSE Itoa(n \div 10) \o Digit(n % 10)

\* strconv.FormatUint(uint64(x), 10) of an int x: a negative x converts to
\* 2^64 + x = 18446744073709551616 + x (computed here for x >= -1616).
FormatUint64(x) ==
  IF x >= 0 THEN Itoa(x)
  ELSE "1844674407370955" \o Digit((1616 + x) \div 1000) \o Digit(((1616 + x) \div 100) % 10)
         \o Digit(((1616 + x) \div 10) % 10) \o Digit((1616 + x) % 10)

\* The parts of a soapBody that xml.Unmarshal leaves nil.
NoFault == [kind |-> "none"]
NoDetail == [kind |-> "none"]
NoUPnPError == [kind |-> "none"]
NoElement == [kind |-> "none"]
NoBody == [kind |-> "none"]

\* What fmt prints for %s when the String method panics.
StringPanic == "%!s(PANIC=String method: runtime error: invalid memory address or nil pointer dereference)"

\* soapFault.String, as fmt.Errorf("soap: %s", fault) calls it: the read of
\* f.Detail.UPnPError panics when f.Detail is nil, and fmt prints the panic.
FaultString(f) ==
  IF f.Detail = NoDetail THEN StringPanic
  ELSE IF f.Detail.UPnPError # NoUPnPError
    THEN "upnp error: " \o Itoa(f.Detail.UPnPError.ErrorCode) \o " - "
           \o f.Detail.UPnPError.ErrorDescription
  ELSE "fault: " \o f.FaultCode \o " - " \o f.FaultString

\* Response documents.
UPnPErr(code, descr) ==
  [kind |-> "detail",
   UPnPError |-> [kind |-> "UPnPError", ErrorCode |-> code, ErrorDescription |-> descr]]
Fault(code, str, detail) ==
  [kind |-> "Fault", FaultCode |-> code, FaultString |-> str, Detail |-> detail]
Envelope(fault, ip, entry) ==
  [kind |-> "Envelope", Fault |-> fault, GetExternalIPAddressResponse |-> ip,
   GetGenericPortMappingEntryResponse |-> entry]
Entry(remote, ext, int, descr) ==
  [kind |-> "entry", RemoteHost |-> remote, ExternalPort |-> ext, Protocol |-> "TCP",
   InternalPort |-> int, InternalClient |-> "192.168.1.2", Enabled |-> 1,
   PortMappingDescription |-> descr, LeaseDuration |-> 0]
HTTPResponse(code, status, body) ==
  [err |-> Nil, StatusCode |-> code, Status |-> status, body |-> body]

FaultBodies ==
  { Envelope(Fault("s:Client", "UPnPError", UPnPErr(713, "SpecifiedArrayIndexInvalid")),
             NoElement, NoElement),
    Envelope(Fault("s:Client", "Malformed", [kind |-> "detail", UPnPError |-> NoUPnPError]),
             NoElement, NoElement),
    Envelope(Fault("s:Server", "Internal Error", NoDetail), NoElement, NoElement) }
GoodBodies ==
  { Envelope(NoFault, NoElement, NoElement),
    Envelope(NoFault, [kind |-> "ip", IP |-> "203.0.113.5"], NoElement),
    Envelope(NoFault, [kind |-> "ip", IP |-> ""], NoElement),
    Envelope(NoFault, NoElement, Entry("", 9001, 9001, "Tor relay")),
    Envelope(NoFault, NoElement, Entry("198.51.100.7", 443, 8443, "web")) }
\* Bodies xml.Unmarshal cannot decode into a soapEnvelope.
UndecodableBodies == { [kind |-> "empty"], [kind |-> "html"] }

SoapResponses ==
  { [err |-> "dial tcp: connection refused"] }
  \cup { HTTPResponse(200, "200 OK", b) : b \in GoodBodies \cup FaultBodies }
  \cup { HTTPResponse(500, "500 Internal Server Error", b) :
           b \in FaultBodies \cup UndecodableBodies \cup { Envelope(NoFault, NoElement, NoElement) } }
  \cup { HTTPResponse(404, "404 Not Found", [kind |-> "html"]) }

\* xml.Unmarshal(body, respEnvelope)
Unmarshal(body) ==
  CASE body.kind = "Envelope" -> Nil
    [] body.kind = "empty" -> "EOF"
    [] OTHER -> "expected element type <Envelope> but have <html>"

IsSuccessStatus(code) == code = StatusOK

\* Client.issueSoapRequest, from the response of httpClient.Do on.
issueSoapRequest(resp) ==
  IF resp.err # Nil THEN [body |-> NoBody, err |-> resp.err]
  ELSE IF Unmarshal(resp.body) # Nil THEN [body |-> NoBody, err |-> Unmarshal(resp.body)]
  ELSE IF resp.body.Fault # NoFault
    THEN [body |-> NoBody, err |-> "soap: " \o FaultString(resp.body.Fault)]
  ELSE IF ~IsSuccessStatus(resp.StatusCode)
    THEN [body |-> NoBody, err |-> "soap: request failed with status: " \o resp.Status]
  ELSE [body |-> resp.body, err |-> Nil]

(***************************************************************************)
(* natclient/upnp/igd.go: the Client operations.                           *)
(***************************************************************************)
\* << internalPort, externalPort, duration >>
UPnPAddPortMappingArgs ==
  { << 9001, 9001, 0 >>, << 9001, 9001, 480 >>, << 9001, 9001, 604800 >>,
    << 9001, 9001, 604801 >>, << 9001, 9001, -1 >> }

\* net.ParseIP on the addresses of the responses.
ParseIP(str) == IF str = "203.0.113.5" THEN << 203, 0, 113, 5 >> ELSE NoAddr

\* One SOAP exchange: the action, its arguments (element, text) and the
\* response the router gave.
Exchange(action, argsXML, resp) == [action |-> action, args |-> argsXML, resp |-> resp]

\* Client.AddPortMapping
upnpAddPortMapping ==
  /\ upc = "ready"
  /\ \E a \in UPnPAddPortMappingArgs, resp \in SoapResponses :
       LET argsXML == << << "NewRemoteHost", "" >>,
                         << "NewExternalPort", FormatUint64(a[2]) >>,
                         << "NewProtocol", "TCP" >>,
                         << "NewInternalPort", FormatUint64(a[1]) >>,
                         << "NewInternalClient", "192.168.1.2" >>,
                         << "NewEnabled", "1" >>,
                         << "NewPortMappingDescription", "Tor relay" >>,
                         << "NewLeaseDuration", FormatUint64(a[3]) >> >>
       IN
       /\ uop' = [name |-> "AddPortMapping", internalPort |-> a[1], externalPort |-> a[2],
                  duration |-> a[3]]
       /\ IF a[3] > maxMappingDuration
            THEN /\ soapLog' = << >>
                 /\ uopResult' = [value |-> << >>, err |-> "ERANGE"]
            ELSE /\ soapLog' = << Exchange("AddPortMapping", argsXML, resp) >>
                 /\ uopResult' = [value |-> << >>, err |-> issueSoapRequest(resp).err]
  /\ resps' = << >>
  /\ UNCHANGED << configVars, natpmpVars, cliVars, httpuVars, codecVars, ssdpResps, upc, rootXMLLocs, cand, ctrl, selected >>

\* Client.DeletePortMapping
upnpDeletePortMapping ==
  /\ upc = "ready"
  /\ \E resp \in SoapResponses :
       LET argsXML == << << "NewRemoteHost", "" >>,
                         << "NewExternalPort", FormatUint64(9001) >>,
                         << "NewProtocol", "TCP" >> >>
       IN
       /\ uop' = [name |-> "DeletePortMapping", internalPort |-> 9001, externalPort |-> 9001]
       /\ soapLog' = << Exchange("DeletePortMapping", argsXML, resp) >>
       /\ uopResult' = [value |-> << >>, err |-> issueSoapRequest(resp).err]
  /\ resps' = << >>
  /\ UNCHANGED << configVars, natpmpVars, cliVars, httpuVars, codecVars, ssdpResps, upc, rootXMLLocs, cand, ctrl, selected >>

\* Client.GetExternalIPAddress
upnpGetExternalIPAddress ==
  /\ upc = "ready"
  /\ \E resp \in SoapResponses :
       LET r == issueSoapRequest(resp) IN
       /\ uop' = [name |-> "GetExternalIPAddress"]
       /\ soapLog' = << Exchange("GetExternalIPAddress", << >>, resp) >>
       /\ uopResult' =
            IF r.err # Nil THEN [value |-> << >>, err |-> r.err]
            ELSE IF r.body.GetExternalIPAddressResponse # NoElement
                    /\ ParseIP(r.body.GetExternalIPAddressResponse.IP) # NoAddr
              THEN [value |-> ParseIP(r.body.GetExternalIPAddressResponse.IP), err |-> Nil]
            ELSE [value |-> << >>, err |-> "igd: GetExternalIPAddress() failed"]
  /\ resps' = << >>
  /\ UNCHANGED << configVars, natpmpVars, cliVars, httpuVars, codecVars, ssdpResps, upc, rootXMLLocs, cand, ctrl, selected >>

\* The string GetListOfPortMappings makes of one entry.
EntryString(r) ==
  "'" \o r.PortMappingDescription \o "' " \o r.InternalClient \o ":" \o Itoa(r.InternalPort)
    \o " <-> " \o (IF r.RemoteHost = "" THEN "0.0.0.0" ELSE r.RemoteHost) \o ":"
    \o Itoa(r.ExternalPort) \o " " \o r.Protocol \o " (" \o Itoa(r.LeaseDuration) \o " sec)"

\* Client.GetListOfPortMappings, up to its loop.
upnpGetListOfPortMappings ==
  /\ upc = "ready"
  /\ uop' = [name |-> "GetListOfPortMappings", idx |-> 0]
  /\ uopResult' = NoResult
  /\ soapLog' = << >>
  /\ resps' = << >>
  /\ upc' = "list"
  /\ UNCHANGED << configVars, natpmpVars, cliVars, httpuVars, codecVars, ssdpResps, rootXMLLocs, cand, ctrl, selected >>

NextIndexSkipping(index) == index + 2
\* The idx++ of the loop.
NextIndex(index) == index + 1

\* The test of the loop: idx < math.MaxUint16
MoreIndexesInclusive(index) ==
  index <= MaxUint16
MoreIndexes(index) ==
  index < MaxUint16

\* One iteration of the loop of GetListOfPortMappings.  At most MaxListed
\* successful answers are explored.
GetGenericPortMappingEntry ==
  /\ upc = "list"
  /\ LET index == uop.idx IN
     IF ~MoreIndexes(index)
       THEN /\ uopResult' = [value |-> resps, err |-> Nil]
            /\ upc' = "ready"
            /\ UNCHANGED << soapLog, resps, uop >>
       ELSE \E resp \in SoapResponses :
              LET r == issueSoapRequest(resp) IN
              /\ r.err = Nil => Len(soapLog) < MaxListed
              /\ soapLog' = Append(soapLog,
                   Exchange("GetGenericPortMappingEntry",
                            << << "NewPortMappingIndex", FormatUint64(index) >> >>, resp))
              /\ IF r.err # Nil
                   THEN /\ uopResult' = [value |-> resps, err |-> Nil]
                        /\ upc' = "ready"
                        /\ UNCHANGED << resps, uop >>
                   ELSE /\ resps' = IF r.body.GetGenericPortMappingEntryResponse # NoElement
                                      THEN Append(resps, EntryString(r.body.GetGenericPortMappingEntryResponse))
                                      ELSE resps
                        /\ uop' = [uop EXCEPT !.idx = NextIndex(index)]
                        /\ UNCHANGED << upc, uopResult >>
  /\ UNCHANGED << configVars, natpmpVars, cliVars, httpuVars, codecVars, ssdpResps, rootXMLLocs, cand, ctrl, selected >>

InitUPnP ==
  /\ protocol = "UPnP"
  /\ verbose = FALSE
  /\ allowDeletePortMapping = FALSE
  /\ NATPMPIdle
  /\ UPnPIdle
  /\ MainIdle
  /\ HTTPUIdle
  /\ CodecIdle

NextUPnP ==
  \/ upnpNew
  \/ discoverRootDevices
  \/ discover
  \/ upnpAddPortMapping
  \/ upnpDeletePortMapping
  \/ upnpGetExternalIPAddress
  \/ upnpGetListOfPortMappings
  \/ GetGenericPortMappingEntry

SpecUPnP == InitUPnP /\ [][NextUPnP]_vars

(***************************************************************************)
(* Properties of the UPnP client.                                          *)
(***************************************************************************)
\* C12: UPnP AddPortMapping accepts a duration only in [0, 604800]: 604801
\* or a negative duration gives a range error and no SOAP request, and 0 and
\* 604800 are sent unchanged as NewLeaseDuration.
C12_DurationValidated ==
  uop.name = "AddPortMapping" =>
    /\ (uop.duration < 0 \/ uop.duration > 604800) =>
         (uopResult.err = "ERANGE" /\ soapLog = << >>)
    /\ uop.duration = 0 =>
         (Len(soapLog) = 1 /\ soapLog[1].args[8] = << "NewLeaseDuration", "0" >>)
    /\ uop.duration = 604800 =>
         (Len(soapLog) = 1 /\ soapLog[1].args[8] = << "NewLeaseDuration", "604800" >>)

\* The response of an exchange is a decoded envelope holding a Fault.
HasFault(resp) ==
  resp.err = Nil /\ resp.body.kind = "Envelope" /\ resp.body.Fault # NoFault
\* The response of an exchange is HTTP 200 with a mapping entry.
HasEntry(resp) ==
  /\ resp.err = Nil
  /\ resp.StatusCode = 200
  /\ resp.body.kind = "Envelope"
  /\ resp.body.Fault = NoFault
  /\ resp.body.GetGenericPortMappingEntryResponse # NoElement

\* C13: GetListOfPortMappings requests NewPortMappingIndex 0, 1, 2, ... in
\* order, one request per index, issues nothing after the first Fault, and
\* after N entry responses followed by a Fault returns exactly the N strings
\* of those entries, in index order.
C13_ListInIndexOrder ==
  uop.name = "GetListOfPortMappings" =>
    /\ \A k \in 1..Len(soapLog) :
         /\ soapLog[k].action = "GetGenericPortMappingEntry"
         /\ soapLog[k].args = << << "NewPortMappingIndex", Digit(k - 1) >> >>
         /\ HasFault(soapLog[k].resp) => (k = Len(soapLog) /\ upc = "ready")
    /\ (upc = "ready" /\ HasFault(soapLog[Len(soapLog)].resp)
        /\ \A k \in 1..(Len(soapLog) - 1) : HasEntry(soapLog[k].resp)) =>
         /\ uopResult.err = Nil
         /\ Len(uopResult.value) = Len(soapLog) - 1
         /\ \A k \in 1..(Len(soapLog) - 1) :
              uopResult.value[k] =
                EntryString(soapLog[k].resp.body.GetGenericPortMappingEntryResponse)

\* C13 witness: two entries, then a Fault; the two strings in index order.
C13_Witness ==
  /\ uop.name = "GetListOfPortMappings"
  /\ upc = "ready"
  /\ Len(soapLog) = 3
  /\ HasFault(soapLog[3].resp)
  /\ uopResult.value = << "'web' 192.168.1.2:8443 <-> 198.51.100.7:443 TCP (0 sec)",
                          "'Tor relay' 192.168.1.2:9001 <-> 0.0.0.0:9001 TCP (0 sec)" >>

\* An operation that issued exactly one SOAP request and got an HTTP response.
OneExchange ==
  /\ uop.name \in { "AddPortMapping", "DeletePortMapping" }
  /\ Len(soapLog) = 1
  /\ soapLog[1].resp.err = Nil

\* C14: a SOAP request succeeds only for HTTP 200 with a body that is not a
\* Fault; a Fault body fails even under HTTP 200; for a status other than
\* 200 the failure reports the Fault if there is one and the HTTP status
\* otherwise.
C14_SoapOutcome ==
  OneExchange =>
    LET resp == soapLog[1].resp
        statusMessage == "soap: request failed with status: " \o resp.Status IN
    /\ uopResult.err = Nil => (resp.StatusCode = 200 /\ ~HasFault(resp))
    /\ HasFault(resp) => (uopResult.err # Nil /\ uopResult.err # statusMessage)
    /\ (resp.StatusCode # 200 /\ ~HasFault(resp)) => uopResult.err = statusMessage

\* C15: every Fault is a failure whose message carries the UPnPError's code
\* and description when there is one, and faultcode and faultstring
\* otherwise, also when the Fault has no detail element.
C15_FaultMessage ==
  (OneExchange /\ HasFault(soapLog[1].resp)) =>
    LET f == soapLog[1].resp.body.Fault IN
    uopResult.err =
      IF f.Detail # NoDetail /\ f.Detail.UPnPError # NoUPnPError
      THEN "soap: upnp error: " \o Itoa(f.Detail.UPnPError.ErrorCode) \o " - "
             \o f.Detail.UPnPError.ErrorDescription
      ELSE "soap: fault: " \o f.FaultCode \o " - " \o f.FaultString

\* The elements of a sequence.
Range(q) == { q[i] : i \in 1..Len(q) }

\* The services a description offers along the path InternetGatewayDevice
\* root -> WANDevice child -> WANConnectionDevice child.
PathServices(c) ==
  IF c.kind = "root" /\ DeviceIs(c.Device, "InternetGatewayDevice")
  THEN UNION { UNION { Range(wc.ServiceList) :
                         wc \in { x \in Range(w.DeviceList) : DeviceIs(x, "WANConnectionDevice") } } :
               w \in { x \in Range(c.Device.DeviceList) : DeviceIs(x, "WANDevice") } }
  ELSE {}

\* The description offers a service of type k along the path.
Offers(c, k) == \E sv \in PathServices(c) : ServiceIs(sv, k)

\* The description gives absolute URLs (it is not UPnP 1.0), so that discover
\* parses each ControlURL.
AbsoluteURLs(c) == ~(c.Major = 1 /\ c.Minor = 0)

\* The description offers a service of type k whose URL discover can build:
\* from a ControlURL that parses, or from a URLBase that does.
OffersUsable(c, k) ==
  \E sv \in PathServices(c) :
    /\ ServiceIs(sv, k)
    /\ AbsoluteURLs(c) => sv.ControlURL # "%zz"
    /\ ~AbsoluteURLs(c) => c.URLBase # "%zz"

Discovered == upc \in { "ready", "list" }

\* Discovery succeeds only along the path, with the control URL of a service
\* of the selected type.
C19_OnlyAlongPath ==
  Discovered =>
    /\ ctrl.urn.kindType \in { "WANIPConnection", "WANPPPConnection" }
    /\ \E sv \in PathServices(selected) :
         ServiceIs(sv, ctrl.urn.kindType) /\ sv.ControlURL = ctrl.path

\* Discovery fails only after every candidate was examined.
C19_MissMovesOn ==
  (upc = "failed" /\ uopResult.err = ErrNoCompatibleService) =>
    /\ cand = Len(rootXMLLocs) + 1
    /\ \A i \in 1..Len(rootXMLLocs) :
         ~OffersUsable(rootXMLLocs[i], "WANIPConnection")
         /\ ~OffersUsable(rootXMLLocs[i], "WANPPPConnection")

\* C19 as stated: discovery succeeds only along the path root ->
\* WANDevice -> WANConnectionDevice -> service; a description offering both
\* services yields WANIPConnection whatever their order, WANPPPConnection is
\* selected only when no WANIPConnection is offered, and a miss moves on to
\* the next candidate.
C19_PreferIPWheneverOffered ==
  /\ C19_OnlyAlongPath
  /\ Discovered =>
       (Offers(selected, "WANIPConnection") <=> ctrl.urn.kindType = "WANIPConnection")
  /\ (upc = "failed" /\ uopResult.err = ErrNoCompatibleService) =>
       cand = Len(rootXMLLocs) + 1

\* C19 amended: as above, except that a service whose URL cannot be built
\* (an absolute ControlURL, or a UPnP 1.0 URLBase, that does not parse) is
\* itself a miss: discovery then falls back from WANIPConnection to
\* WANPPPConnection, or moves on to the next candidate.
C19_PreferUsableIP ==
  /\ C19_OnlyAlongPath
  /\ Discovered =>
       (OffersUsable(selected, "WANIPConnection") <=> ctrl.urn.kindType = "WANIPConnection")
  /\ C19_MissMovesOn

\* C19 witness: after a miss on the first candidate, a description listing
\* WANPPPConnection before WANIPConnection yields WANIPConnection.
C19_Witness ==
  /\ upc = "ready"
  /\ cand = 2
  /\ Offers(selected, "WANPPPConnection")
  /\ ServiceIs(selected.Device.DeviceList[2].DeviceList[1].ServiceList[1], "WANPPPConnection")
  /\ ctrl.urn.kindType = "WANIPConnection"

(***************************************************************************)
(* main.go: the command line driver.  The backend is seen through the      *)
(* base.Client interface: each call returns what the selected backend can  *)
(* return for it.                                                          *)
(***************************************************************************)

\* Longest list of -p (and of -d) flags explored.
MaxPorts == 2

mappingDuration == 0

\* portPair values appended by forwardList.Set.
PortPairs == { [internal |-> 9001, external |-> 9001],
               [internal |-> 80, external |-> 8080] }

\* flag.Parse failed (unknown flag, malformed port): the flag package calls
\* flag.Usage, which is usage().
ParseFailed == [outcome |-> "usage"]

\* The values of main's flag variables after flag.Parse.
CmdLines ==
  { ParseFailed } \cup
  [ outcome : { "parsed" },
    doHelp : BOOLEAN,
    nArg : { 0, 1 },
    doTest : BOOLEAN,
    doFetchIP : BOOLEAN,
    doList : BOOLEAN,
    portsToForward : SeqsUpTo(PortPairs, MaxPorts),
    portsToUnforward : SeqsUpTo(PortPairs, MaxPorts) ]

\* usage(): prints the flags and calls os.Exit(1).
usage ==
  /\ mainPc' = "exited"
  /\ exitStatus' = 1

\* The extra flag handling of main: "usage", "test" and "nothing" end the
\* process, "go" lets it reach natclient.New.
FlagHandling(a) ==
  IF a.outcome = "usage" THEN "usage"
  ELSE IF a.doHelp \/ a.nArg > 0 THEN "usage"
  ELSE IF a.doTest THEN "test"
  ELSE IF /\ Len(a.portsToForward) = 0
          /\ ~a.doFetchIP
          /\ ~a.doList
          /\ Len(a.portsToUnforward) = 0 THEN "nothing"
  ELSE "go"

\* main, from flag.Parse to the call of natclient.New.
mainParse ==
  /\ mainPc = "idle"
  /\ \E a \in CmdLines :
       /\ cmdline' = a
       /\ IF FlagHandling(a) = "usage" THEN usage
          ELSE IF FlagHandling(a) \in { "test", "nothing" }
            THEN /\ mainPc' = "exited"
                 /\ exitStatus' = 1
            ELSE /\ mainPc' = "new"
                 /\ UNCHANGED exitStatus
  /\ UNCHANGED << configVars, natpmpVars, upnpVars, httpuVars, codecVars, backend, loopIdx, events >>

\* natclient.New(protocol, verbose) when the factories named in works are
\* the ones whose New succeeds on this network.
NewOutcome(name, works) ==
  IF name # ""
    THEN IF LookupFactory(name) = Nil
           THEN [client |-> Nil, err |-> "unknown protocol"]
           ELSE IF name \in works
                  THEN [client |-> name, err |-> Nil]
                  ELSE [client |-> Nil, err |-> "factory failed"]
    ELSE LET ok == { k \in 1..Len(factoryNames) : factoryNames[k] \in works } IN
         IF ok = { }
           THEN [client |-> Nil,
                 err |-> "failed to initialize/discover a port forwarding mechanism"]
           ELSE [client |-> factoryNames[Min(ok)], err |-> Nil]

\* One call through base.Client, as logged for the run.
Call(name, pair, err) == [kind |-> "call", op |-> name, pair |-> pair, err |-> err]

NoPair == [internal |-> 0, external |-> 0]

\* main: c, err := natclient.New(protocol, isVerbose)
mainNew ==
  /\ mainPc = "new"
  /\ \E works \in SUBSET factories :
       LET r == NewOutcome(protocol, works) IN
         /\ events' = Append(events, Call("New", NoPair, r.err))
         /\ IF r.err # Nil
              THEN /\ mainPc' = "exited"
                   /\ exitStatus' = 1
                   /\ UNCHANGED << backend, loopIdx >>
              ELSE /\ backend' = r.client
                   /\ mainPc' = "forward"
                   /\ loopIdx' = 1
                   /\ UNCHANGED exitStatus
  /\ UNCHANGED << configVars, natpmpVars, upnpVars, httpuVars, codecVars, cmdline >>

\* The errors AddPortMapping can return to main (nil included).
AddPortMappingErrs(b) ==
  IF b = "NAT-PMP"
    THEN { Nil, ErrDifferentPort, "i/o timeout" }
    ELSE { Nil, "soap: upnp error: 718 - ConflictInMappingEntry" }

\* The errors DeletePortMapping can return to main.
DeletePortMappingErrs(b) ==
  IF b = "NAT-PMP"
    THEN IF allowDeletePortMapping THEN { Nil, "i/o timeout" } ELSE { "ENOTSUP" }
    ELSE { Nil, "soap: upnp error: 714 - NoSuchEntryInArray" }

\* The errors GetExternalIPAddress can return to main: the NAT-PMP client
\* answers from the address cached by New.
GetExternalIPAddressErrs(b) ==
  IF b = "NAT-PMP" THEN { Nil } ELSE { Nil, "igd: GetExternalIPAddress() failed" }

\* The errors GetListOfPortMappings can return to main: the UPnP client
\* always returns the entries it collected.
GetListOfPortMappingsErrs(b) ==
  IF b = "NAT-PMP" THEN { "ENOTSUP" } ELSE { Nil }

\* The line main writes to stdout after a mapping operation.
StatusAlwaysSuccess(kind, pair, err) ==
  [kind |-> "stdout", op |-> kind, pair |-> pair, status |-> "SUCCESS"]
StatusLine(kind, pair, err) ==
  [kind |-> "stdout", op |-> kind, pair |-> pair,
   status |-> IF err # Nil THEN "FAIL" ELSE "SUCCESS"]

\* What main does once the unforward loop is over.
AfterLoops(a) ==
  IF a.doFetchIP THEN "fetch" ELSE IF a.doList THEN "list" ELSE "return"

\* main returns: the process ends with status 0.
mainReturn ==
  /\ mainPc = "return"
  /\ mainPc' = "exited"
  /\ exitStatus' = 0
  /\ UNCHANGED << configVars, natpmpVars, upnpVars, httpuVars, codecVars, cmdline, backend, loopIdx, events >>

\* One iteration of "for _, pair := range portsToForward" (or the end of
\* the loop).
mainForward ==
  /\ mainPc = "forward"
  /\ IF loopIdx > Len(cmdline.portsToForward)
       THEN /\ mainPc' = "unforward"
            /\ loopIdx' = 1
            /\ UNCHANGED events
       ELSE LET pair == cmdline.portsToForward[loopIdx] IN
            \E err \in AddPortMappingErrs(backend) :
              /\ events' = events \o << Call("AddPortMapping", pair, err),
                                        StatusLine("tcp-forward", pair, err) >>
              /\ loopIdx' = loopIdx + 1
              /\ UNCHANGED mainPc
  /\ UNCHANGED << configVars, natpmpVars, upnpVars, httpuVars, codecVars, cmdline, backend, exitStatus >>

\* One iteration of "for _, pair := range portsToUnforward" (or the end of
\* the loop).
mainUnforward ==
  /\ mainPc = "unforward"
  /\ IF loopIdx > Len(cmdline.portsToUnforward)
       THEN /\ mainPc' = AfterLoops(cmdline)
            /\ loopIdx' = 0
            /\ UNCHANGED events
       ELSE LET pair == cmdline.portsToUnforward[loopIdx] IN
            \E err \in DeletePortMappingErrs(backend) :
              /\ events' = events \o << Call("DeletePortMapping", pair, err),
                                        StatusLine("tcp-unforward", pair, err) >>
              /\ loopIdx' = loopIdx + 1
              /\ UNCHANGED mainPc
  /\ UNCHANGED << configVars, natpmpVars, upnpVars, httpuVars, codecVars, cmdline, backend, exitStatus >>

\* Whether main treats the result of GetExternalIPAddress as a failure.
FetchFailedIgnored(err) == FALSE
FetchFailed(err) == err # Nil

\* main: if doFetchIP { ... }
mainFetchIP ==
  /\ mainPc = "fetch"
  /\ \E err \in GetExternalIPAddressErrs(backend) :
       /\ events' = Append(events, Call("GetExternalIPAddress", NoPair, err))
       /\ IF FetchFailed(err)
            THEN /\ mainPc' = "exited"
                 /\ exitStatus' = 1
            ELSE /\ mainPc' = IF cmdline.doList THEN "list" ELSE "return"
                 /\ UNCHANGED exitStatus
  /\ UNCHANGED << configVars, natpmpVars, upnpVars, httpuVars, codecVars, cmdline, backend, loopIdx >>

\* Whether main treats the result of GetListOfPortMappings as a failure.
ListFailedIgnored(err) == FALSE
ListFailed(err) == err # Nil

\* main: if doList { ... }
mainList ==
  /\ mainPc = "list"
  /\ \E err \in GetListOfPortMappingsErrs(backend) :
       /\ events' = Append(events, Call("GetListOfPortMappings", NoPair, err))
       /\ IF ListFailed(err)
            THEN /\ mainPc' = "exited"
                 /\ exitStatus' = 1
            ELSE /\ mainPc' = "return"
                 /\ UNCHANGED exitStatus
  /\ UNCHANGED << configVars, natpmpVars, upnpVars, httpuVars, codecVars, cmdline, backend, loopIdx >>

InitCLI ==
  /\ protocol \in Protocols
  /\ verbose = FALSE
  /\ allowDeletePortMapping \in BOOLEAN
  /\ NATPMPIdle
  /\ UPnPIdle
  /\ MainIdle
  /\ HTTPUIdle
  /\ CodecIdle

NextCLI ==
  \/ mainParse
  \/ mainNew
  \/ mainForward
  \/ mainUnforward
  \/ mainFetchIP
  \/ mainList
  \/ mainReturn

SpecCLI == InitCLI /\ [][NextCLI]_vars

(***************************************************************************)
(* Claims about the command line driver (checked under SpecCLI).           *)
(***************************************************************************)

\* The mapping operations the command line asks for, in the order main
\* must perform them.
Requested(a) ==
  [ i \in 1..Len(a.portsToForward) |->
      [call |-> "AddPortMapping", line |-> "tcp-forward", pair |-> a.portsToForward[i]] ]
  \o
  [ i \in 1..Len(a.portsToUnforward) |->
      [call |-> "DeletePortMapping", line |-> "tcp-unforward", pair |-> a.portsToUnforward[i]] ]

\* The log of the run without the call of natclient.New and without the
\* calls that follow the loops.
MappingLog ==
  SelectSeq(events, LAMBDA e : e.kind = "stdout" \/
                               e.op \in { "AddPortMapping", "DeletePortMapping" })

PastLoops == backend # Nil /\ mainPc \in { "fetch", "list", "return", "exited" }

\* C16: the mapping operations are performed in the order forward list then
\* unforward list, each followed by exactly one stdout line carrying its
\* ports and FAIL exactly when it failed, before the next operation is
\* called; once a backend is selected the process never ends, nor reaches
\* the fetch and list steps, before every requested operation was performed.
C16_MappingsInOrder ==
  backend # Nil =>
    LET want == Requested(cmdline)
        log == MappingLog
    IN /\ Len(log) % 2 = 0
       /\ Len(log) <= 2 * Len(want)
       /\ \A i \in 1..(Len(log) \div 2) :
            /\ log[2 * i - 1] = Call(want[i].call, want[i].pair, log[2 * i - 1].err)
            /\ log[2 * i].kind = "stdout"
            /\ log[2 * i].op = want[i].line
            /\ log[2 * i].pair = want[i].pair
            /\ log[2 * i].status = IF log[2 * i - 1].err = Nil THEN "SUCCESS" ELSE "FAIL"
       /\ PastLoops => Len(log) = 2 * Len(want)

\* C16 witness: a run with two forwards and two unforwards in which the
\* first forward failed and all four operations were performed and reported.
C16_Witness ==
  /\ mainPc = "exited"
  /\ exitStatus = 0
  /\ Len(cmdline.portsToForward) = 2
  /\ Len(cmdline.portsToUnforward) = 2
  /\ cmdline.portsToForward[1] # cmdline.portsToForward[2]
  /\ Len(MappingLog) = 8
  /\ MappingLog[2].status = "FAIL"
  /\ MappingLog[8].status = "SUCCESS"

Failed(name) == \E i \in 1..Len(events) :
  events[i].kind = "call" /\ events[i].op = name /\ events[i].err # Nil

NATPMPUnsupported(name) == \E i \in 1..Len(events) :
  /\ events[i].kind = "call"
  /\ events[i].op = name
  /\ events[i].err = "ENOTSUP"
  /\ backend = "NAT-PMP"

\* C17 as stated: a run on the NAT-PMP backend in which DeletePortMapping or
\* GetListOfPortMappings was refused as unsupported does not end with status
\* 1 unless something else failed (the external address fetch).
C17_UnsupportedNeverAborts ==
  ( /\ mainPc = "exited"
    /\ NATPMPUnsupported("DeletePortMapping") \/ NATPMPUnsupported("GetListOfPortMappings")
    /\ ~Failed("GetExternalIPAddress") )
  => exitStatus = 0

\* C17 amended: an unsupported NAT-PMP DeletePortMapping is reported as a
\* FAIL line on stdout and the run goes on (it ends with status 0 unless the
\* fetch or the listing fails); an unsupported GetListOfPortMappings writes
\* no status line and ends the process with status 1.
C17_UnsupportedDeleteFailsListAborts ==
  /\ \A i \in 1..Len(events) :
       ( /\ backend = "NAT-PMP"
         /\ events[i].kind = "call"
         /\ events[i].op = "DeletePortMapping"
         /\ events[i].err = "ENOTSUP" )
       => /\ i < Len(events)
          /\ events[i + 1] = [kind |-> "stdout", op |-> "tcp-unforward",
                              pair |-> events[i].pair, status |-> "FAIL"]
  /\ ( /\ mainPc = "exited"
       /\ NATPMPUnsupported("DeletePortMapping")
       /\ ~Failed("GetExternalIPAddress")
       /\ ~Failed("GetListOfPortMappings") )
     => exitStatus = 0
  /\ NATPMPUnsupported("GetListOfPortMappings")
     => /\ mainPc = "exited"
        /\ exitStatus = 1
        /\ events[Len(events)].kind = "call"

\* C17 witness: a NAT-PMP run whose unforward was refused and reported as
\* FAIL, and whose listing was then refused, ended with status 1.
C17_Witness ==
  /\ mainPc = "exited"
  /\ exitStatus = 1
  /\ NATPMPUnsupported("DeletePortMapping")
  /\ NATPMPUnsupported("GetListOfPortMappings")
  /\ \E i \in 1..Len(events) : events[i].kind = "stdout" /\ events[i].status = "FAIL"

\* Argument handling fails: the command line does not parse, asks for help,
\* has extra arguments, asks for the test mode, or asks for nothing.
ArgumentError(a) ==
  \/ a.outcome = "usage"
  \/ a.doHelp
  \/ a.nArg > 0
  \/ a.doTest
  \/ (a.portsToForward = << >> /\ a.portsToUnforward = << >> /\ ~a.doFetchIP /\ ~a.doList)

\* C18: a finished process has status 1 exactly when argument handling
\* failed, natclient.New failed, the external address fetch failed or the
\* listing failed, and status 0 otherwise, whatever the mapping operations
\* returned.
C18_ExitStatus ==
  /\ mainPc = "exited" =>
       /\ exitStatus \in { 0, 1 }
       /\ exitStatus = 1 <=>
            \/ ArgumentError(cmdline)
            \/ Failed("New")
            \/ Failed("GetExternalIPAddress")
            \/ Failed("GetListOfPortMappings")
  /\ mainPc # "exited" => exitStatus = -1

\* C18 witness: a run in which every mapping operation failed ended with
\* status 0.
C18_Witness ==
  /\ mainPc = "exited"
  /\ exitStatus = 0
  /\ Failed("AddPortMapping")
  /\ Failed("DeletePortMapping")
  /\ ~ \E i \in 1..Len(events) : events[i].kind = "stdout" /\ events[i].status = "SUCCESS"

(***************************************************************************)
(* Claims about the request driver (checked under Spec).                   *)
(***************************************************************************)

\* A step of the read loop that read one datagram with the opcode of the
\* response to the request in progress.
ReadMatching ==
  /\ pc = "read"
  /\ reads' = reads + 1
  /\ Len(lastRead') >= hdrLength
  /\ lastRead'[2] = ReqOp(req) + opRespOffset

\* C21: a mapping response with the request's opcode that does not decode is
\* skipped: the driver goes on reading in the same attempt and returns
\* nothing; an external-address response that does not decode ends the
\* request at once with the decoder's error, and nothing more is written.
C21_StaleMappingSkipped ==
  [][ /\ ( /\ ReadMatching
           /\ req.kind = "requestMapping"
           /\ decodeRequestMappingResp(req, lastRead').err # Nil )
         => ( pc' = "read" /\ attempt' = attempt /\ ret' = NoRet /\ writes' = writes )
      /\ ( /\ ReadMatching
           /\ req.kind = "externalAddress"
           /\ decodeExternalAddressResp(lastRead').err # Nil )
         => ( /\ pc' = "ret"
              /\ ret' = [resp |-> NoResp, err |-> decodeExternalAddressResp(lastRead').err]
              /\ writes' = writes )
      /\ pc = "ret" => Len(writes') <= Len(writes) ]_vars

\* C21 witness: a stale mapping response (another internal port) was read in
\* the first attempt of a mapping request and the driver is still reading.
C21_Witness ==
  /\ pc = "read"
  /\ req # NoReq
  /\ req.kind = "requestMapping"
  /\ attempt = 0
  /\ reads = 1
  /\ lastRead = MappingResponse(0, 2, 0, 9002, 9001, 7200)
  /\ decodeRequestMappingResp(req, lastRead).err = "state Request Mapping Response"
  /\ ret = NoRet

\* C25: within one request, each datagram after the first is written no
\* earlier than the deadline of the attempt before it, whatever ended that
\* attempt.
C25_NoEarlyRetransmission ==
  \A k \in 1..(Len(writes) - 1) :
    writes[k + 1].at >= writes[k].at + writes[k].timeout

\* C25 witness: the second attempt was sent although the first ended before
\* its deadline, on a transient write error.
C25_Witness ==
  /\ Len(writes) >= 2
  /\ writes[1].result = "temporary"
  /\ writes[2].at = writes[1].at + initialTimeoutDuration

(***************************************************************************)
(* Claims about UPnP discovery (checked under SpecUPnP).                   *)
(***************************************************************************)

\* C29: the candidates are tried in the order collected; discover returns
\* the control point of the first candidate whose description was fetched
\* and holds a usable service; a candidate that fails only moves the loop to
\* the next one; discovery fails only after every candidate failed.
C29_FirstUsableCandidate ==
  [][ upc = "discover" =>
        /\ \A j \in 1..(cand - 1) : j <= Len(rootXMLLocs) /\ ~SelectService(rootXMLLocs[j]).found
        /\ upc' = "ready" =>
             /\ cand <= Len(rootXMLLocs)
             /\ SelectService(rootXMLLocs[cand]).found
             /\ rootXMLLocs[cand] # DownloadFailed
             /\ ctrl' = SelectService(rootXMLLocs[cand]).cp
             /\ selected' = rootXMLLocs[cand]
        /\ upc' = "failed" =>
             /\ cand = Len(rootXMLLocs) + 1
             /\ \A j \in 1..Len(rootXMLLocs) : ~SelectService(rootXMLLocs[j]).found
        /\ upc' = "discover" =>
             /\ cand' = cand + 1
             /\ rootXMLLocs' = rootXMLLocs
             /\ ~SelectService(rootXMLLocs[cand]).found ]_vars

\* C29 witness: the first candidate failed and discovery returned the
\* WANPPPConnection control point of the second.
C29_Witness ==
  /\ upc = "ready"
  /\ cand = 2
  /\ ctrl.urn.kindType = "WANPPPConnection"
  /\ uopResult.err = Nil

\* The locations of the responses that pass the tests named by `keep`, in
\* response order.
Candidates(rs, keep(_)) ==
  LET kept == SelectSeq(rs, keep) IN [ k \in 1..Len(kept) |-> kept[k].serves ]

Has200AndST(resp) == resp.StatusCode = 200 /\ resp.ST = "upnp:rootdevice"

Has200AndSTAndLocation(resp) == Has200AndST(resp) /\ resp.Location # "%zz"

Collected(keep(_)) ==
  /\ upc = "discover" => rootXMLLocs = Candidates(ssdpResps, keep)
  /\ (upc = "failed" /\ uopResult.err = ErrNoRootDevices) <=>
       (upc \notin { "idle", "msearch", "ready" } /\ ssdpResps # << >>
          /\ Candidates(ssdpResps, keep) = << >>)

\* C30 as stated: the candidates are exactly the locations of the responses
\* with status 200 and the ST of the request, in response order, and
\* discovery fails when there is none.
C30_CandidatesAre200WithST == Collected(Has200AndST)

\* C30 amended: the candidates are exactly the locations of the responses
\* with status 200, the ST of the request and a Location header that parses
\* as a URL, in response order; discovery fails when there is none.
C30_CandidatesAre200WithSTAndURL == Collected(Has200AndSTAndLocation)

\* C30 witness: of two responses the first had status 404, and the only
\* candidate is the location of the second.
C30_Witness ==
  /\ upc = "discover"
  /\ Len(ssdpResps) = 2
  /\ ssdpResps[1].StatusCode = 404
  /\ rootXMLLocs = << ssdpResps[2].serves >>

(***************************************************************************)
(* natclient/upnp/httpu/httpu.go: Client.Do, the HTTP(M)U request engine.  *)
(***************************************************************************)
\* Most datagrams conn.ReadFrom returns during one Do call.
MaxReplies == 2
\* Largest retries argument explored.
MaxRetriesArg == 2

\* requestTimeout (2 * time.Second), in milliseconds: the timeout argument.
requestTimeout == 2000

\* A datagram that holds an HTTP response, and one that does not.
HTTPDatagram(resp) == [kind |-> "response", resp |-> resp]
Garbage == [kind |-> "garbage"]

HTTPUDatagrams ==
  { HTTPDatagram(SsdpResponse(StatusOK, mSearchStRoot, "http://192.168.1.1:5000/rootDesc.xml",
                              Root(1, 1, "", Gateway(<< IPSvc >>)))),
    HTTPDatagram(SsdpResponse(404, mSearchStRoot, "http://192.168.1.1:5000/rootDesc.xml",
                              Root(1, 1, "", Gateway(<< PPPSvc >>)))),
    Garbage }

\* http.ReadResponse on the bytes of one datagram.
ReadResponse(d) ==
  IF d.kind = "response"
    THEN [resp |-> d.resp, err |-> Nil]
    ELSE [resp |-> NoArgs, err |-> "malformed HTTP response"]

\* net.ResolveUDPAddr, net.ListenUDP and r.Write, before the retry loop: all
\* succeed, or one fails with its error.
SetupOutcomes == { Nil, "listen udp4 0.0.0.0:0: bind: address already in use" }

DoReturn(list, err) == [resps |-> list, err |-> err]

\* The loop test "i < retries".
MoreRetriesInclusive(i, n) ==
  i <= n
MoreRetries(i, n) ==
  i < n

\* Do, up to the retry loop.
httpuDo ==
  /\ hpc = "idle"
  /\ \E n \in 0..MaxRetriesArg, setup \in SetupOutcomes :
       /\ hRetries' = n
       /\ IF setup # Nil
            THEN /\ hpc' = "done"
                 /\ hRet' = DoReturn(<< >>, setup)
            ELSE IF MoreRetries(0, n)
              THEN /\ hpc' = "send"
                   /\ UNCHANGED hRet
              ELSE /\ hpc' = "done"
                   /\ hRet' = DoReturn(<< >>, "ETIMEDOUT")
  /\ UNCHANGED << configVars, natpmpVars, upnpVars, cliVars, codecVars, hAttempt, hNow,
                  hTimeoutAt, respList, hSent, hReadLog >>

\* The end of one iteration of the retry loop without a return: i++, the
\* loop test, and after the loop ETIMEDOUT.
hEndAttempt ==
  /\ hAttempt' = hAttempt + 1
  /\ IF MoreRetries(hAttempt + 1, hRetries)
       THEN /\ hpc' = "send"
            /\ UNCHANGED hRet
       ELSE /\ hpc' = "done"
            /\ hRet' = DoReturn(<< >>, "ETIMEDOUT")

\* Whether a conn.WriteTo error sends the loop to its next iteration:
\* a net.Error that is Temporary() or Timeout().
SendErrorNeverRetried(w) ==
  FALSE
SendErrorRetried(w) ==
  w = "temporary"

\* The top of the retry loop: sleep until the previous deadline, set the new
\* one, write the request.
httpuWriteTo ==
  /\ hpc = "send"
  /\ LET start == SleepUntil(hTimeoutAt, hNow)
         deadline == start + requestTimeout
     IN
     \E w \in WriteOutcomes :
       /\ hNow' = start
       /\ hTimeoutAt' = deadline
       /\ hSent' = Append(hSent, [attempt |-> hAttempt, at |-> start, result |-> w])
       /\ IF w = "ok"
            THEN /\ hpc' = "read"
                 /\ UNCHANGED << hAttempt, hRet >>
            ELSE IF SendErrorRetried(w)
              THEN hEndAttempt
              ELSE /\ hpc' = "done"
                   /\ hRet' = DoReturn(<< >>, "write error")
                   /\ UNCHANGED hAttempt
  /\ UNCHANGED << configVars, natpmpVars, upnpVars, cliVars, codecVars, hRetries, respList,
                  hReadLog >>

\* conn.ReadFrom returns a datagram: a parse error is ignored, a response is
\* appended to respList.
httpuReadFrom ==
  /\ hpc = "read"
  /\ Len(hReadLog) < MaxReplies
  /\ \E d \in HTTPUDatagrams :
       /\ hReadLog' = Append(hReadLog, [raw |-> d, attempt |-> hAttempt])
       /\ respList' = IF ReadResponse(d).err # Nil
                        THEN respList
                        ELSE Append(respList, ReadResponse(d).resp)
  /\ UNCHANGED << configVars, natpmpVars, upnpVars, cliVars, codecVars, hpc, hRetries, hAttempt,
                  hNow, hTimeoutAt, hSent, hRet >>

\* "if len(respList) > 0 { return respList, nil }" after the read loop.
ReturnResponsesNever(list) ==
  FALSE
ReturnResponses(list) ==
  Len(list) > 0

\* conn.ReadFrom returns an error (the deadline, or another): the read loop
\* ends, and Do returns the responses if it has any.
httpuReadError ==
  /\ hpc = "read"
  /\ \E e \in ReadErrors :
       hNow' = IF e = "deadline" THEN hTimeoutAt ELSE hNow
  /\ IF ReturnResponses(respList)
       THEN /\ hpc' = "done"
            /\ hRet' = DoReturn(respList, Nil)
            /\ UNCHANGED hAttempt
       ELSE hEndAttempt
  /\ UNCHANGED << configVars, natpmpVars, upnpVars, cliVars, codecVars, hRetries, hTimeoutAt,
                  respList, hSent, hReadLog >>

InitHTTPU ==
  /\ protocol = "UPnP"
  /\ verbose = FALSE
  /\ allowDeletePortMapping = FALSE
  /\ NATPMPIdle
  /\ UPnPIdle
  /\ MainIdle
  /\ HTTPUIdle
  /\ CodecIdle

NextHTTPU ==
  \/ httpuDo
  \/ httpuWriteTo
  \/ httpuReadFrom
  \/ httpuReadError

SpecHTTPU == InitHTTPU /\ [][NextHTTPU]_vars

\* Both retry engines of the program, which runs one call at a time: the
\* NAT-PMP side starts only while no Do call was made, and Do only while
\* natclient.New was not called.
NextRetry ==
  \/ (hpc = "idle" /\ New)
  \/ InvokeFactoryUPnP
  \/ InvokeFactoryNATPMP
  \/ issueRequestWrite
  \/ issueRequestRead
  \/ issueRequestReadError
  \/ GetExternalIPAddressReturn
  \/ GetExternalIPAddress
  \/ GetListOfPortMappings
  \/ Close
  \/ AddPortMapping
  \/ AddPortMappingReturn
  \/ AddPortMappingCleanupReturn
  \/ DeletePortMapping
  \/ DeletePortMappingReturn
  \/ (pc = "main" /\ httpuDo)
  \/ httpuWriteTo
  \/ httpuReadFrom
  \/ httpuReadError

SpecRetry == Init /\ [][NextRetry]_vars

(***************************************************************************)
(* Claims about httpu.Client.Do (checked under SpecHTTPU) and about both   *)
(* retry engines (checked under SpecRetry).                                *)
(***************************************************************************)

\* The places in hReadLog of the datagrams that parse as HTTP responses.
Parsed == { k \in 1..Len(hReadLog) : hReadLog[k].raw.kind = "response" }

\* The responses held by the datagrams read so far, in arrival order.
ParsedSoFar ==
  LET ok == SelectSeq(hReadLog, LAMBDA e : e.raw.kind = "response")
  IN [ k \in 1..Len(ok) |-> ok[k].raw.resp ]

C26_State ==
  /\ respList = ParsedSoFar
  /\ \A k \in Parsed : hReadLog[k].attempt = hAttempt
  /\ (hpc = "send" \/ hpc = "idle") => Parsed = { }
  /\ (hpc = "done" /\ hRet.err = Nil) =>
       /\ hRet.resps = ParsedSoFar
       /\ hRet.resps # << >>
  /\ (hpc = "done" /\ hRet.err # Nil) =>
       /\ hRet.resps = << >>
       /\ Parsed = { }
  /\ (hpc = "done" /\ hAttempt = hRetries /\ hRet.err \notin SetupOutcomes) =>
       hRet.err = "ETIMEDOUT"

C26_Step ==
  /\ ( /\ hpc = "read"
       /\ Len(hReadLog') = Len(hReadLog) + 1
       /\ hReadLog'[Len(hReadLog')].raw.kind # "response" )
     => ( hpc' = "read" /\ hAttempt' = hAttempt /\ respList' = respList )
  /\ ( hpc = "read" /\ hpc' # "read" /\ Parsed # { } )
     => ( hpc' = "done" /\ hRet'.err = Nil )

\* C26: Do returns successfully exactly at the end of the first attempt in
\* which a datagram parsed as a response, with all the responses parsed so
\* far in arrival order; a datagram that does not parse changes nothing and
\* does not end the attempt; a successful return is never empty; when the
\* retries run out with nothing collected Do fails with ETIMEDOUT.
C26_ReturnsAtFirstAnsweredAttempt == []C26_State /\ [][C26_Step]_vars

\* C26 witness: the first attempt got nothing, the second read a datagram
\* that did not parse and then a response, and Do returned that response.
C26_Witness ==
  /\ hpc = "done"
  /\ hRet.err = Nil
  /\ hAttempt = 1
  /\ Len(hReadLog) = 2
  /\ hReadLog[1].raw = Garbage
  /\ hReadLog[1].attempt = 1
  /\ hRet.resps = << hReadLog[2].raw.resp >>

SendLogOK(log, budget, returned, err) ==
  /\ Len(log) <= budget
  /\ \A k \in 1..Len(log) :
       /\ log[k].attempt = k - 1
       /\ log[k].result = "fatal" => (k = Len(log) /\ returned /\ err = "write error")

C28_State ==
  /\ SendLogOK(writes, maxRetries, pc \notin { "send", "read" }, ret.err)
  /\ hpc # "idle" => SendLogOK(hSent, hRetries, hpc = "done", hRet.err)
  /\ \A k \in 1..Len(hSent) :
       hSent[k].result # "ok" =>
         ~ \E j \in 1..Len(hReadLog) : hReadLog[j].attempt = hSent[k].attempt

C28_Step ==
  /\ ( Len(writes') = Len(writes) + 1 /\ writes'[Len(writes')].result = "temporary" )
     => ( attempt' = attempt + 1 /\ reads' = reads /\ pc' \in { "send", "ret" }
          /\ (pc' = "ret" <=> attempt' = maxRetries) )
  /\ ( Len(writes') = Len(writes) + 1 /\ writes'[Len(writes')].result = "fatal" )
     => ( pc' = "ret" /\ ret'.err = "write error" )
  /\ ( Len(hSent') = Len(hSent) + 1 /\ hSent'[Len(hSent')].result = "temporary" )
     => ( hAttempt' = hAttempt + 1 /\ hReadLog' = hReadLog /\ hpc' \in { "send", "done" }
          /\ (hpc' = "done" <=> hAttempt' = hRetries) )
  /\ ( Len(hSent') = Len(hSent) + 1 /\ hSent'[Len(hSent')].result = "fatal" )
     => ( hpc' = "done" /\ hRet'.err = "write error" )

\* C28: in Do and in issueRequest alike, a send that fails with a transient
\* or timeout error ends its attempt without a read and the loop goes on to
\* the next attempt, the failed one counted; a send that fails with any
\* other error ends the call with that error, and nothing is sent after it.
C28_SendErrors == []C28_State /\ [][C28_Step]_vars

\* C28 witness: a Do call whose first send failed transiently and whose
\* second send failed for good returned the write error.
C28_Witness ==
  /\ hpc = "done"
  /\ Len(hSent) = 2
  /\ hSent[1].result = "temporary"
  /\ hSent[2].result = "fatal"
  /\ hRet.err = "write error"
  /\ hReadLog = << >>

(***************************************************************************)
(* natpmp/packet.go: the packet functions applied to inputs of every       *)
(* shape.                                                                  *)
(***************************************************************************)
\* Twenty bytes laid out as a mapping response (an external-address response
\* in its first twelve), cut to n bytes.
RawResponse(ver, opc, rc, n) ==
  Truncate(<< ver, opc >> \o PutUint16(rc) \o PutUint32(Wide(7))
             \o PutUint16(9001) \o PutUint16(9002) \o PutUint32(Wide(7200))
             \o << 0, 0, 0, 0 >>, n)

CodecDatagrams ==
  { RawResponse(ver, opc, rc, n) :
      ver \in { 0, 1 },
      opc \in { opExternalAddress + opRespOffset, opRequestMappingTCP + opRespOffset, 129 },
      rc \in { resSuccess, resNetworkFailure, 77 },
      n \in { 0, 2, 3, hdrLength, 8, externalAddressRespLength, requestMappingRespLength, 20 } }

\* The requests a mapping response is decoded against.
CodecRequests ==
  { newRequestMappingReq(9001, 9002, Wide(7200)).req,
    newRequestMappingReq(9002, 9002, Wide(7200)).req }

\* Arguments of newRequestMappingReq, in and out of range.
CodecMappingArgs ==
  { << i, e, d >> :
      i \in { -1, 0, 1, 256, 9001, MaxUint16, MaxUint16 + 1 },
      e \in { -1, 0, 9002, MaxUint16, MaxUint16 + 1 },
      d \in { << -1, 65535 >>, Wide(0), Wide(7200), << 1, 0 >>, MaxUint32, << 65536, 0 >> } }

CodecInputs ==
  { [fn |-> "decodePacketHdr", raw |-> raw] : raw \in CodecDatagrams }
    \cup { [fn |-> "decodeExternalAddressResp", raw |-> raw] : raw \in CodecDatagrams }
    \cup { [fn |-> "decodeRequestMappingResp", req |-> r, raw |-> raw] :
             r \in CodecRequests, raw \in CodecDatagrams }
    \cup { [fn |-> "newRequestMappingReq", args |-> a] : a \in CodecMappingArgs }
    \cup { [fn |-> "newExternalAddressReq"] }

CodecFrame == UNCHANGED << configVars, natpmpVars, upnpVars, cliVars, httpuVars, codecIn >>

applyDecodePacketHdr ==
  /\ codecOut = NoArgs
  /\ codecIn.fn = "decodePacketHdr"
  /\ codecOut' = decodePacketHdr(codecIn.raw)
  /\ CodecFrame

applyDecodeExternalAddressResp ==
  /\ codecOut = NoArgs
  /\ codecIn.fn = "decodeExternalAddressResp"
  /\ codecOut' = decodeExternalAddressResp(codecIn.raw)
  /\ CodecFrame

applyDecodeRequestMappingResp ==
  /\ codecOut = NoArgs
  /\ codecIn.fn = "decodeRequestMappingResp"
  /\ codecOut' = decodeRequestMappingResp(codecIn.req, codecIn.raw)
  /\ CodecFrame

\* newRequestMappingReq(internal, external, duration), then encode().
applyNewRequestMappingReq ==
  /\ codecOut = NoArgs
  /\ codecIn.fn = "newRequestMappingReq"
  /\ LET r == newRequestMappingReq(codecIn.args[1], codecIn.args[2], codecIn.args[3]) IN
     codecOut' = [req |-> r.req, err |-> r.err,
                  raw |-> IF r.err = Nil THEN Encode(r.req) ELSE << >>]
  /\ CodecFrame

\* newExternalAddressReq(), then encode().
applyNewExternalAddressReq ==
  /\ codecOut = NoArgs
  /\ codecIn.fn = "newExternalAddressReq"
  /\ codecOut' = [req |-> newExternalAddressReq, err |-> Nil,
                  raw |-> Encode(newExternalAddressReq)]
  /\ CodecFrame

InitCodec ==
  /\ protocol = "NAT-PMP"
  /\ verbose = FALSE
  /\ allowDeletePortMapping = FALSE
  /\ NATPMPIdle
  /\ UPnPIdle
  /\ MainIdle
  /\ HTTPUIdle
  /\ codecIn \in CodecInputs
  /\ codecOut = NoArgs

NextCodec ==
  \/ applyDecodePacketHdr
  \/ applyDecodeExternalAddressResp
  \/ applyDecodeRequestMappingResp
  \/ applyNewRequestMappingReq
  \/ applyNewExternalAddressReq

SpecCodec == InitCodec /\ [][NextCodec]_vars

(***************************************************************************)
(* Claims about the packet functions (checked under SpecCodec).            *)
(***************************************************************************)

Decoded(fn) == codecOut # NoArgs /\ codecIn.fn = fn

DecodedResponse ==
  Decoded("decodeExternalAddressResp") \/ Decoded("decodeRequestMappingResp")

\* C22: a buffer whose first byte (the version) is not 0 is never decoded
\* into an external-address or a mapping response.
C22_VersionVerified ==
  (DecodedResponse /\ Len(codecIn.raw) >= 1 /\ codecIn.raw[1] # 0) => codecOut.err # Nil

\* The opcode and the exact length a decoder requires.
WantedOp == IF codecIn.fn = "decodeExternalAddressResp" THEN 128 ELSE 130
WantedLen == IF codecIn.fn = "decodeExternalAddressResp" THEN 12 ELSE 16

\* C23: the decoders check in this order: a buffer shorter than the header
\* fails header decoding; then a wrong opcode is rejected; then a result code
\* other than 0 gives the error of that result code, whatever the length of
\* the buffer; then any length other than 12 (external address) or 16
\* (mapping) bytes fails.
C23_DecoderCheckOrder ==
  /\ Decoded("decodePacketHdr") =>
       (Len(codecIn.raw) < 4 <=> codecOut.err # Nil)
  /\ DecodedResponse =>
       LET raw == codecIn.raw
           rc == raw[3] * 256 + raw[4]
       IN IF Len(raw) < 4 THEN codecOut.err = "packet too short to contain header"
          ELSE IF raw[2] # WantedOp
            THEN codecOut.err \in { "not a External Address Response",
                                    "not a Request Mapping Response" }
          ELSE IF rc # 0
            THEN /\ codecOut.err = resultCodeToError(rc)
                 /\ codecOut.err # Nil
                 /\ codecOut.resp = NoResp
          ELSE IF Len(raw) # WantedLen THEN codecOut.err = "invalid packet length"
          ELSE codecOut.err \in { Nil, "state Request Mapping Response" }

\* C23 witness: an external-address response of 8 bytes with result code 3
\* was decoded into the error of result code 3, not into a length error.
C23_Witness ==
  /\ Decoded("decodeExternalAddressResp")
  /\ codecIn.raw = RawResponse(0, 128, 3, 8)
  /\ codecOut.err = "network failure"

\* The two bytes of a 16-bit value, most significant first.
BigEndian16(x) == << x \div 256, x % 256 >>

InRange(a) ==
  /\ a[1] \in 0..65535
  /\ a[2] \in 0..65535
  /\ a[3][1] \in 0..65535
  /\ a[3][2] \in 0..65535

\* C24: for arguments in range the encoded mapping request is the 12 bytes
\* 0, 2, 0, 0, internal (u16), external (u16), duration (u32), big endian, and
\* the fields read back from those offsets are the arguments; the encoded
\* external-address request is the 2 bytes 0, 0.
C24_RequestEncoding ==
  /\ (Decoded("newRequestMappingReq") /\ InRange(codecIn.args)) =>
       LET a == codecIn.args
           raw == codecOut.raw
       IN /\ codecOut.err = Nil
          /\ Len(raw) = 12
          /\ raw = << 0, 2, 0, 0 >> \o BigEndian16(a[1]) \o BigEndian16(a[2])
                     \o BigEndian16(a[3][1]) \o BigEndian16(a[3][2])
          /\ Uint16At(raw, 4) = a[1]
          /\ Uint16At(raw, 6) = a[2]
          /\ Uint32At(raw, 8) = a[3]
  /\ Decoded("newExternalAddressReq") => codecOut.raw = << 0, 0 >>

\* C24 witness: the request for internal port 9001, external port 9002 and
\* 7200 seconds was encoded.
C24_Witness ==
  /\ Decoded("newRequestMappingReq")
  /\ codecIn.args = << 9001, 9002, Wide(7200) >>
  /\ codecOut.raw = << 0, 2, 0, 0, 35, 41, 35, 42, 0, 0, 28, 32 >>

(***************************************************************************)
(* natclient/upnp/ssdp.go: the root device test of Client.discover.        *)
(***************************************************************************)
\* The description with its root device's child devices and services removed.
WithoutChildren(c) ==
  [c EXCEPT !.Device = [DeviceType |-> c.Device.DeviceType,
                        DeviceList |-> << >>, ServiceList |-> << >>]]

\* C31: a candidate whose root device is not an InternetGatewayDevice yields
\* no control point, and what its iteration yields is the same as for the
\* description with the root device's device and service lists removed (the
\* lists are never looked at); discover never returns a control point taken
\* from such a description.
C31_NonGatewayRootFails ==
  /\ \A k \in 1..Len(rootXMLLocs) :
       LET c == rootXMLLocs[k] IN
       (c.kind = "root" /\ ~DeviceIs(c.Device, internetGatewayDevice)) =>
         /\ ~SelectService(c).found
         /\ SelectService(c) = SelectService(WithoutChildren(c))
  /\ upc = "ready" => DeviceIs(selected.Device, internetGatewayDevice)

\* C31 witness: discover has gone past a first candidate whose root device is
\* a MediaServer above a complete WANDevice subtree, without a control point.
C31_Witness ==
  /\ upc = "discover"
  /\ cand = 2
  /\ Len(rootXMLLocs) = 2
  /\ rootXMLLocs[1] = NonGatewayRoot
  /\ ctrl = NoCtrl

(***************************************************************************)
(* natclient/upnp/ssdp.go: parseURN and upnpURN.String on URN strings.     *)
(* The input is the string's parts between colons, codecIn.split; the      *)
(* string itself is the parts joined by colons.                            *)
(***************************************************************************)
\* %d of an int.
FormatInt(v) == IF v < 0 THEN "-" \o Itoa(0 - v) ELSE Itoa(v)

\* upnpURN.String: fmt.Sprintf("urn:%s:%s:%s:%d", domainName, kind, kindType, version)
upnpURNStringKindFirst(urn) ==
  "urn:" \o urn.kind \o ":" \o urn.domainName \o ":" \o urn.kindType \o ":"
    \o FormatInt(urn.version)
upnpURNString(urn) ==
  "urn:" \o urn.domainName \o ":" \o urn.kind \o ":" \o urn.kindType \o ":"
    \o FormatInt(urn.version)

\* The string that strings.Split(s, ":") splits into `split`.
RECURSIVE JoinColon(_)
JoinColon(split) ==
  IF Len(split) = 0 THEN ""
  ELSE IF Len(split) = 1 THEN split[1]
  ELSE split[1] \o ":" \o JoinColon(Tail(split))

URNSplits ==
  { << scheme, domain, kind, kindType, Text(ver) >> :
      scheme \in { "urn", "uuid" },
      domain \in { "schemas-upnp-org", "example-com" },
      kind \in { "device", "service" },
      kindType \in { internetGatewayDevice, wanIPConnection, "" },
      ver \in VersionTexts }
    \cup { << "urn", "schemas-upnp-org", "device", internetGatewayDevice >>,
           << "urn", "schemas-upnp-org", "service", wanIPConnection, "1", "1" >>,
           << "urn" >>, << "" >> }

URNInputs == { [fn |-> "parseURN", split |-> sp] : sp \in URNSplits }

\* parseURN(s)
applyParseURN ==
  /\ codecOut = NoArgs
  /\ codecIn.fn = "parseURN"
  /\ codecOut' = [urn |-> parseURN(codecIn.split), printed |-> FALSE, str |-> ""]
  /\ CodecFrame

\* String() of the URN parseURN returned.
applyString ==
  /\ codecOut # NoArgs
  /\ codecIn.fn = "parseURN"
  /\ codecOut.urn # NoURN
  /\ ~codecOut.printed
  /\ codecOut' = [codecOut EXCEPT !.printed = TRUE, !.str = upnpURNString(codecOut.urn)]
  /\ CodecFrame

InitURN ==
  /\ protocol = "UPnP"
  /\ verbose = FALSE
  /\ allowDeletePortMapping = FALSE
  /\ NATPMPIdle
  /\ UPnPIdle
  /\ MainIdle
  /\ HTTPUIdle
  /\ codecIn \in URNInputs
  /\ codecOut = NoArgs

NextURN ==
  \/ applyParseURN
  \/ applyString

SpecURN == InitURN /\ [][NextURN]_vars

\* A string of exactly five parts whose first part is "urn" was parsed.
FivePartURN ==
  /\ Decoded("parseURN")
  /\ Len(codecIn.split) = 5
  /\ codecIn.split[1] = "urn"

\* C32 as stated: every string of exactly five colon-separated parts whose
\* first part is "urn" parses, and String() of the result is the string.
C32_RoundTrip ==
  FivePartURN =>
    /\ codecOut.urn # NoURN
    /\ codecOut.printed => codecOut.str = JoinColon(codecIn.split)

\* The decimal forms of the integers of 8 bits: no plus sign, no leading
\* zero, no "-0".
CanonicalInt8(str) == \E v \in -128..127 : str = FormatInt(v)

\* C32, amended: every string of exactly five colon-separated parts whose
\* first part is "urn" and whose fifth part is the decimal form of an integer
\* in -128..127 parses, and String() of the result is the string; with any
\* other fifth part parseURN fails or String() gives a different string.
C32_RoundTripOfCanonicalVersion ==
  FivePartURN =>
    IF CanonicalInt8(codecIn.split[5])
      THEN /\ codecOut.urn # NoURN
           /\ codecOut.printed => codecOut.str = JoinColon(codecIn.split)
      ELSE \/ codecOut.urn = NoURN
           \/ codecOut.printed => codecOut.str # JoinColon(codecIn.split)

\* C32 witness: "urn:schemas-upnp-org:service:WANIPConnection:-128" was
\* parsed and printed back.
C32_Witness ==
  /\ FivePartURN
  /\ codecIn.split = << "urn", "schemas-upnp-org", "service", wanIPConnection, "-128" >>
  /\ codecOut.printed
  /\ codecOut.urn.version = 0 - 128
  /\ codecOut.str = "urn:schemas-upnp-org:service:WANIPConnection:-128"

(***************************************************************************)
(* natclient/upnp: the control point of a constructed client.              *)
(***************************************************************************)
\* cp.url, cp.urn and the local address are all set.
Populated(cp) ==
  /\ cp.kind = "controlPoint"
  /\ cp.base # NoURL
  /\ cp.base = "" => URLParses(cp.path)
  /\ cp.urn # NoURN
  /\ cp.urn.kind = "service"
  /\ cp.localAddr = localAddr

\* C33: whenever the client holds a control point, its URL, its URN and the
\* local address are set; no step of AddPortMapping, DeletePortMapping,
\* GetExternalIPAddress or GetListOfPortMappings changes it.
C33_ControlPointImmutable ==
  /\ [](ctrl # NoCtrl => Populated(ctrl))
  /\ [](upc \in { "ready", "list" } => ctrl # NoCtrl)
  /\ [][ctrl # NoCtrl => ctrl' = ctrl]_vars

\* C33 witness: a client built from a UPnP 1.0 description has listed the
\* mappings, one entry returned, with the control point discover gave it.
C33_Witness ==
  /\ upc = "ready"
  /\ uop.name = "GetListOfPortMappings"
  /\ Len(soapLog) = 2
  /\ Len(uopResult.value) = 1
  /\ ctrl = ControlPoint(rootLocBase, Svc(wanIPConnection, "/ctl/IPConn"))

(***************************************************************************)
(* natpmp.ClientFactory.New: the socket and the cached address.            *)
(***************************************************************************)
\* What the NAT-PMP factory returned, "pending" while it runs, "not invoked"
\* before natclient.New reaches it.
NATPMPOutcome ==
  LET I == { i \in 1..Len(probed) : probed[i].name = "NAT-PMP" } IN
  IF I = {} THEN "not invoked" ELSE probed[Min(I)].err

\* C36: a client the NAT-PMP factory returned has, until it is closed, an
\* open socket and a cached external address, the one decoded from the
\* probe's response; when the factory failed at getGateway or at DialUDP no
\* socket was opened; when it failed at the probe the socket is closed by the
\* time its error is returned; the socket is open while the probe runs.
C36_ConstructedAfterProbe ==
  /\ (client = "NAT-PMP" /\ pc # "closed") =>
       /\ NATPMPOutcome = Nil
       /\ conn = "open"
       /\ extAddr # NoAddr
       /\ extAddr = probeAddr
  /\ NATPMPOutcome \in { "not invoked", "getGateway failed", "DialUDP failed" } =>
       conn = "none"
  /\ NATPMPOutcome = "pending" => (conn = "open" /\ client # "NAT-PMP")
  /\ NATPMPOutcome \notin { "not invoked", "getGateway failed", "DialUDP failed",
                            "pending", Nil } =>
       (conn = "closed" /\ client # "NAT-PMP" /\ extAddr = NoAddr)

\* C36 witness: the probe timed out, the factory has returned the error and
\* the socket it had opened is closed.
C36_Witness ==
  /\ NATPMPOutcome = "ETIMEDOUT"
  /\ gwAddr # NoAddr
  /\ conn = "closed"
  /\ client # "NAT-PMP"

(***************************************************************************)
(* natclient/natpmp/getgateway_linux.go: the netlink route dump.           *)
(* A netlink message is its header's type, the length of its data, the     *)
(* family byte of the data and the route attributes that follow the        *)
(* header; badAttrs: syscall.ParseNetlinkRouteAttr fails on the message.   *)
(***************************************************************************)
\* Most messages in a dump.
MaxMsgs == 3

\* Package syscall.
NLMSG_DONE == 3
RTM_NEWLINK == 16
RTM_NEWROUTE == 24
SizeofRtMsg == 12
AF_INET == 2
AF_INET6 == 10
RTA_DST == 1
RTA_OIF == 4
RTA_GATEWAY == 5

NoEntry == [kind |-> "none"]

NetlinkMessage(type, len, family, attrs, bad) ==
  [Type |-> type, DataLen |-> len, Family |-> family, attrs |-> attrs, badAttrs |-> bad]
RouteAttr(type, value) == [Type |-> type, Value |-> value]

\* The attributes set the fields of e, in order.
RECURSIVE ApplyAttrs(_, _)
ApplyAttrs(e, attrs) ==
  IF attrs = << >> THEN e
  ELSE LET a == attrs[1] IN
       ApplyAttrs(CASE a.Type = RTA_DST -> [e EXCEPT !.DstNet = a.Value]
                    [] a.Type = RTA_GATEWAY -> [e EXCEPT !.GwAddr = a.Value]
                    [] OTHER -> e,
                  Tail(attrs))

parseRTMNewRoute(m) ==
  IF m.DataLen < SizeofRtMsg THEN [entry |-> NoEntry, err |-> "EINVAL"]
  ELSE IF m.Family # AF_INET THEN [entry |-> NoEntry, err |-> "EAFNOSUPPORT"]
  ELSE IF m.badAttrs THEN [entry |-> NoEntry, err |-> "EINVAL"]
  ELSE [entry |-> ApplyAttrs([kind |-> "routeEntry", DstNet |-> NoAddr, GwAddr |-> NoAddr],
                             m.attrs),
        err |-> Nil]

\* getGateway's test of an entry: e.DstNet.IP == nil && e.GwAddr != nil
IsDefaultRouteAnyDestination(e) ==
  e.GwAddr # NoAddr
IsDefaultRoute(e) ==
  e.DstNet = NoAddr /\ e.GwAddr # NoAddr

\* getGateway's loop over rtTable.
FindDefault(rtTable) ==
  LET I == { i \in 1..Len(rtTable) : IsDefaultRoute(rtTable[i]) } IN
  IF I = {} THEN [value |-> NoAddr, err |-> "failed to find default gateway"]
  ELSE [value |-> rtTable[Min(I)].GwAddr, err |-> Nil]

\* getGateway's msgLoop from message i on, with the rtTable built so far.
RECURSIVE msgLoop(_, _, _)
msgLoop(msgs, i, rtTable) ==
  IF i > Len(msgs) THEN FindDefault(rtTable)
  ELSE IF msgs[i].Type = NLMSG_DONE THEN FindDefault(rtTable)
  ELSE IF msgs[i].Type = RTM_NEWROUTE
    THEN LET r == parseRTMNewRoute(msgs[i]) IN
         IF r.err # Nil THEN [value |-> NoAddr, err |-> r.err]
         ELSE msgLoop(msgs, i + 1, Append(rtTable, r.entry))
  ELSE msgLoop(msgs, i + 1, rtTable)

\* getGateway, from the results of syscall.NetlinkRIB and
\* syscall.ParseNetlinkMessage on.
getGateway(ribErr, msgs) ==
  IF ribErr # Nil THEN [value |-> NoAddr, err |-> ribErr]
  ELSE msgLoop(msgs, 1, << >>)

\* The messages of the dumps.
DefaultVia1 ==
  NetlinkMessage(RTM_NEWROUTE, 36, AF_INET,
                 << RouteAttr(RTA_GATEWAY, << 192, 168, 1, 1 >>),
                    RouteAttr(RTA_OIF, << 2, 0, 0, 0 >>) >>, FALSE)
DefaultVia254 ==
  NetlinkMessage(RTM_NEWROUTE, 28, AF_INET,
                 << RouteAttr(RTA_GATEWAY, << 192, 168, 1, 254 >>) >>, FALSE)
NetworkRoute ==
  NetlinkMessage(RTM_NEWROUTE, 36, AF_INET,
                 << RouteAttr(RTA_DST, << 10, 0, 0, 0 >>),
                    RouteAttr(RTA_GATEWAY, << 192, 168, 1, 7 >>) >>, FALSE)
LinkRoute ==
  NetlinkMessage(RTM_NEWROUTE, 28, AF_INET, << RouteAttr(RTA_OIF, << 2, 0, 0, 0 >>) >>, FALSE)
Inet6Route ==
  NetlinkMessage(RTM_NEWROUTE, 28, AF_INET6,
                 << RouteAttr(RTA_GATEWAY, << 192, 168, 1, 6 >>) >>, FALSE)
TruncatedRoute == NetlinkMessage(RTM_NEWROUTE, 8, AF_INET, << >>, FALSE)
BadAttrsRoute == NetlinkMessage(RTM_NEWROUTE, 14, AF_INET, << >>, TRUE)
LinkMessage ==
  NetlinkMessage(RTM_NEWLINK, 28, AF_INET,
                 << RouteAttr(RTA_GATEWAY, << 192, 168, 1, 9 >>) >>, FALSE)
DoneMessage == NetlinkMessage(NLMSG_DONE, 4, 0, << >>, FALSE)

NetlinkMessages ==
  { DefaultVia1, DefaultVia254, NetworkRoute, LinkRoute, Inet6Route, TruncatedRoute,
    BadAttrsRoute, LinkMessage, DoneMessage }

GatewayInputs ==
  { [fn |-> "getGateway", ribErr |-> Nil, msgs |-> ms] :
      ms \in SeqsUpTo(NetlinkMessages, MaxMsgs) }
    \cup { [fn |-> "getGateway", ribErr |-> "EPERM", msgs |-> << >>] }

\* getGateway()
applyGetGateway ==
  /\ codecOut = NoArgs
  /\ codecIn.fn = "getGateway"
  /\ codecOut' = getGateway(codecIn.ribErr, codecIn.msgs)
  /\ CodecFrame

InitGateway ==
  /\ protocol = "NAT-PMP"
  /\ verbose = FALSE
  /\ allowDeletePortMapping = FALSE
  /\ NATPMPIdle
  /\ UPnPIdle
  /\ MainIdle
  /\ HTTPUIdle
  /\ codecIn \in GatewayInputs
  /\ codecOut = NoArgs

NextGateway == applyGetGateway

SpecGateway == InitGateway /\ [][NextGateway]_vars

\* The dump was read and getGateway has returned.
Located == Decoded("getGateway") /\ codecIn.ribErr = Nil

\* The messages before the first NLMSG_DONE.
BeforeDone(msgs) ==
  LET D == { i \in 1..Len(msgs) : msgs[i].Type = NLMSG_DONE } IN
  IF D = {} THEN msgs ELSE SubSeq(msgs, 1, Min(D) - 1)

IsNewRoute(m) == m.Type = RTM_NEWROUTE
Parses(m) == parseRTMNewRoute(m).err = Nil
HasAttr(m, type) == \E k \in 1..Len(m.attrs) : m.attrs[k].Type = type
\* A route message with no destination attribute and with a gateway attribute.
IsDefaultRow(m) == ~HasAttr(m, RTA_DST) /\ HasAttr(m, RTA_GATEWAY)
\* The value of its last gateway attribute.
GatewayOf(m) ==
  m.attrs[CHOOSE k \in 1..Len(m.attrs) :
            /\ m.attrs[k].Type = RTA_GATEWAY
            /\ \A j \in (k + 1)..Len(m.attrs) : m.attrs[j].Type # RTA_GATEWAY].Value

\* The locator returned the gateway of the first default row of `rows`, or
\* the error of a table without default route.
ReturnsFirstDefault(rows) ==
  LET I == { i \in 1..Len(rows) : IsDefaultRow(rows[i]) } IN
  IF I = {} THEN codecOut = [value |-> NoAddr, err |-> "failed to find default gateway"]
  ELSE codecOut = [value |-> GatewayOf(rows[Min(I)]), err |-> Nil]

C35_OtherFamilySkipped ==
  Located =>
    LET IsInetOrOther(m) == ~(m.Type = RTM_NEWROUTE /\ m.DataLen >= SizeofRtMsg
                              /\ m.Family # AF_INET)
    IN codecOut = getGateway(Nil, SelectSeq(codecIn.msgs, IsInetOrOther))

(***************************************************************************)
(* natclient/upnp/igd.go: the end of a long GetListOfPortMappings walk.    *)
(* The walk starts in the state it is in after a router has answered the   *)
(* requests for the indexes below MaxUint16 - MaxListed with bodies that   *)
(* hold no entry; soapLog holds the exchanges from that state on.          *)
(***************************************************************************)
InitLongList ==
  /\ protocol = "UPnP"
  /\ verbose = FALSE
  /\ allowDeletePortMapping = FALSE
  /\ NATPMPIdle
  /\ MainIdle
  /\ HTTPUIdle
  /\ CodecIdle
  /\ upc = "list"
  /\ rootXMLLocs = << >>
  /\ ssdpResps = << >>
  /\ cand = 1
  /\ \E sv \in { IPSvc, PPPSvc } :
       /\ selected = Root(1, 1, "", Gateway(<< sv >>))
       /\ ctrl = ControlPoint("", sv)
  /\ uop = [name |-> "GetListOfPortMappings", idx |-> MaxUint16 - MaxListed]
  /\ uopResult = NoResult
  /\ soapLog = << >>
  /\ resps = << >>

NextLongList ==
  \/ upnpGetListOfPortMappings
  \/ GetGenericPortMappingEntry

\* Every request of the walk returns, so the loop goes on until it ends.
SpecLongList ==
  InitLongList /\ [][NextLongList]_vars /\ WF_vars(GetGenericPortMappingEntry)

\* The exchange failed: a transport failure, a Fault, a status other than
\* 200, or a body that does not decode.
RequestFailed(x) == issueSoapRequest(x.resp).err # Nil

\* The index an exchange asked for is that of a request below the 65535th.
IndexBelowLimit(x) ==
  \E k \in (0..MaxListed) \cup ((MaxUint16 - MaxListed - 1)..(MaxUint16 - 1)) :
    x.args = << << "NewPortMappingIndex", FormatUint64(k) >> >>

====
